---- MODULE Spec2Model ----
(***************************************************************************)
(* Verification model of the virus scanner's detection-and-containment     *)
(* pipeline: the signature database (scanner/database.rs), the scanner     *)
(* engine (scanner/engine.rs) and the quarantine manager                   *)
(* (core/security.rs), with the database updater (update/mod.rs) and the  *)
(* file monitor (monitor/mod.rs, core/mod.rs).                             *)
(*                                                                         *)
(* Eleven specifications share the module:                                  *)
(*   Spec   the signature database, its scan cache and the scanner engine  *)
(*   LSpec  the signature store alone, under batches of signatures         *)
(*   FSpec  the signature store loaded from signature files                *)
(*   CSpec  tasks that share one signature database, step by step          *)
(*   MSpec  the pattern matchers, called on their own                      *)
(*   QSpec  the quarantine manager over a small file system                *)
(*   TSpec  the quarantine manager with its artifacts being changed        *)
(*   ASpec  the life of quarantine artifacts, from a used quarantine dir   *)
(*   RSpec  the scan cache, called on its own with a small capacity        *)
(*   USpec  tasks that call perform_update on one DatabaseUpdater          *)
(*   NSpec  a FileMonitor, its callers and its polling threads             *)
(*                                                                         *)
(* Bytes are integers 0..255, byte strings are sequences of bytes, file    *)
(* names and signature ids are strings, a path is a sequence of            *)
(* components.                                                             *)
(***************************************************************************)
EXTENDS Integers, Sequences, FiniteSets, TLC

VARIABLES
    \* ---- SignatureDatabase (scanner/database.rs:47-54)
    signatures,          \* id -> Signature (the HashMap behind the RwLock)
    signatures_by_type,  \* threat_type -> sequence of ids
    hash_cache,          \* the LRU cache: sequence of <<path, id>>, most recent first
    memory_usage,        \* the memory_usage cell
    sigLockHeld,         \* TRUE once a call blocks forever holding signatures' write lock
    cacheLockHeld,       \* TRUE once a call blocks forever holding the hash_cache mutex
    cachePoisoned,       \* TRUE once a thread panicked holding the hash_cache mutex
    \* ---- the scanned file system
    files,               \* path of a regular file -> its byte content
    \* ---- ScannerEngine (scanner/engine.rs:135-140)
    engine,              \* [options, stats, runs] of the current ScannerEngine
    \* ---- what the most recent call did (observation of its return)
    scan,                \* outcome of the most recent start_scan
    load,                \* outcome of the most recent update_signatures / load_from_cvd
    \* ---- history
    inserted,            \* id -> the signature most recently handed to the store for it
    reported,            \* the <<path, signature id>> pairs returned by completed scans
    loads,               \* number of update_signatures calls so far
    \* ---- QuarantineManager (core/security.rs:76-79) and its file system
    encryption_key,      \* <<>> for None, <<key>> for Some(key)
    disk,                \* path -> byte content of every existing file
    now,                 \* the local clock, seconds after midnight
    qret,                \* outcome of the most recent quarantine/restore/delete call
    origin,              \* artifact path -> [name, content] of the file quarantined into it
    qops,                \* number of quarantine-side file system changes so far
    \* ---- the pattern matchers, called on their own
    matched,             \* arguments and result of the most recent match_pattern call
    \* ---- tasks working on one SignatureDatabase at the same time
    conc,                \* their positions, the lock of signatures, what readers saw
    \* ---- history of the scan cache, called on its own
    lru,                 \* when each path was used last, and the most recent call
    \* ---- DatabaseUpdater (update/mod.rs:30-38) and the tasks that call it
    upd,                 \* status.in_progress, each task's position, what each call did
    \* ---- FileMonitor (monitor/mod.rs:43-48), its callers and its threads
    mon                  \* the inotify handle, the running flag, the live threads

svars == <<signatures, signatures_by_type, hash_cache, memory_usage, sigLockHeld,
           cacheLockHeld, cachePoisoned, files, engine, scan, load, inserted, reported,
           loads>>
qvars == <<encryption_key, disk, now, qret, origin, qops>>
xvars == <<matched, conc, lru, upd, mon>>
vars == <<svars, qvars, xvars>>

-----------------------------------------------------------------------------
(* Bounds of the model *)

\* update_signatures calls in one behaviour
MaxLoads == 2
\* signatures in one batch handed to update_signatures
MaxBatch == 2
\* start_scan invocations on one ScannerEngine
MaxScans == 2
\* width in bits of the content fingerprint (64 in the program)
HashBits == 12

(* Program constants *)

\* LruCache::new(NonZeroUsize::new(10000))
CacheCapacity == 10000

-----------------------------------------------------------------------------
(* Generic helpers *)

Range(s) == {s[i] : i \in 1..Len(s)}

IsPrefix(p, s) == Len(p) <= Len(s) /\ SubSeq(s, 1, Len(p)) = p

Last(s) == s[Len(s)]

RECURSIVE SumSeq(_)
SumSeq(s) == IF s = <<>> THEN 0 ELSE Head(s) + SumSeq(Tail(s))

\* the positions of character c in string s
Positions(s, c) == {i \in 1..Len(s) : SubSeq(s, i, i) = c}

SetMax(S) == CHOOSE x \in S : \A y \in S : y <= x
SetMin(S) == CHOOSE x \in S : \A y \in S : x <= y

-----------------------------------------------------------------------------
(* Byte strings used as file contents and patterns *)

\* b"MALWARE"
Malware == <<77, 65, 76, 87, 65, 82, 69>>
\* b"xxMALWAREyy"
InfectedData == <<120, 120>> \o Malware \o <<121, 121>>
\* b"clean"
CleanData == <<99, 108, 101, 97, 110>>
\* b"xxMALWAREyyz": one byte longer than InfectedData
LongData == InfectedData \o <<122>>

Contents == {InfectedData, CleanData, LongData}

-----------------------------------------------------------------------------
(* SignatureDatabase: pure functions (scanner/database.rs) *)

HexChars == <<"0", "1", "2", "3", "4", "5", "6", "7",
              "8", "9", "a", "b", "c", "d", "e", "f">>

\* format!("{:x}", n): lower-case hexadecimal, no leading zeros
RECURSIVE ToHex(_)
ToHex(n) ==
    IF n < 16 THEN HexChars[n + 1]
    ELSE ToHex(n \div 16) \o HexChars[(n % 16) + 1]

\* The hasher state after absorbing data. DefaultHasher (SipHash, 64 bits) is
\* replaced by a multiplicative hash of HashBits bits: a deterministic function
\* of the whole content whose value fits HashBits bits.
RECURSIVE HashBytes(_, _)
HashBytes(data, h) ==
    IF data = <<>> THEN h
    ELSE HashBytes(Tail(data), ((h * 31) + Head(data) + 1) % (2 ^ HashBits))

\* calculate_hash: hash the content, print the 64-bit value in hexadecimal
calculate_hash(data) == ToHex(HashBytes(data, Len(data)))

\* only the window at the start of the data
WindowsAtStart(data, n) ==
    IF n = 0 THEN "panic"
    ELSE IF n <= Len(data) THEN {SubSeq(data, 1, n)} ELSE {}

\* data.windows(n): the contiguous windows of n bytes. windows(0) panics
\* ("window size must be non-zero"); the model returns the string "panic" there.
Windows(data, n) ==
    IF n = 0 THEN "panic"
    ELSE {SubSeq(data, i, i + n - 1) : i \in 1..(Len(data) - n + 1)}

Star == 42
QMark == 63

\* the length of the run of literal bytes of pattern that starts at index j
\* (0-based), as the inner while loop counts it
RECURSIVE LiteralRun(_, _, _)
LiteralRun(pattern, j, k) ==
    IF k < Len(pattern) - j /\ pattern[j + k + 1] # Star /\ pattern[j + k + 1] # QMark
    THEN LiteralRun(pattern, j, k + 1)
    ELSE k

\* a matcher whose '?' consumes no byte of the data
RECURSIVE MatchExtendedLax(_, _, _, _)
MatchExtendedLax(data, pattern, i, j) ==
    IF i < Len(data) /\ j < Len(pattern)
    THEN IF pattern[j + 1] = Star THEN TRUE
         ELSE IF pattern[j + 1] = QMark
              THEN MatchExtendedLax(data, pattern, i, j + 1)
              ELSE LET k == LiteralRun(pattern, j, 0)
                   IN  IF IsPrefix(SubSeq(pattern, j + 1, j + k), SubSeq(data, i + 1, Len(data)))
                       THEN MatchExtendedLax(data, pattern, i + k, j + k)
                       ELSE FALSE
    ELSE j >= Len(pattern)

\* match_extended_pattern, i and j the 0-based cursors of the while loop
RECURSIVE MatchExtendedFrom(_, _, _, _)
MatchExtendedFrom(data, pattern, i, j) ==
    IF i < Len(data) /\ j < Len(pattern)
    THEN IF pattern[j + 1] = Star THEN TRUE
         ELSE IF pattern[j + 1] = QMark
              THEN MatchExtendedFrom(data, pattern, i + 1, j + 1)
              ELSE LET k == LiteralRun(pattern, j, 0)
                   IN  IF IsPrefix(SubSeq(pattern, j + 1, j + k), SubSeq(data, i + 1, Len(data)))
                       THEN MatchExtendedFrom(data, pattern, i + k, j + k)
                       ELSE FALSE
    ELSE j >= Len(pattern)

match_extended_pattern(data, pattern) == MatchExtendedFrom(data, pattern, 0, 0)

\* match_pattern: "match", "no_match", or "panic" (a zero-length ByteSequence
\* pattern reaches windows(0))
match_pattern(data, pattern, pattern_type) ==
    CASE pattern_type = "ByteSequence" ->
             IF Len(pattern) = 0 THEN "panic"
             ELSE IF pattern \in Windows(data, Len(pattern)) THEN "match" ELSE "no_match"
      [] pattern_type = "ExtendedByteSequence" ->
             IF match_extended_pattern(data, pattern) THEN "match" ELSE "no_match"
      [] OTHER -> "no_match"

-----------------------------------------------------------------------------
(* SignatureDatabase: the store *)

\* The signatures a caller may hand to the store. The name, target and
\* subplatform fields are carried by the program and read by nothing modelled
\* here; they are left out of the record.
SigS1 == [id |-> "S1", threat_type |-> "Virus", risk_level |-> "High",
          pattern |-> Malware, pattern_type |-> "ByteSequence"]
SigS1b == [id |-> "S1", threat_type |-> "trojan", risk_level |-> "critical",
           pattern |-> <<77, 65, Star>>, pattern_type |-> "ExtendedByteSequence"]
SigHash == [id |-> calculate_hash(InfectedData), threat_type |-> "Worm",
            risk_level |-> "medium", pattern |-> <<>>, pattern_type |-> "Hash"]

SigUniverse == {SigS1, SigS1b, SigHash}

RECURSIVE SeqsUpTo(_, _)
SeqsUpTo(S, n) ==
    IF n = 0 THEN {<<>>}
    ELSE LET shorter == SeqsUpTo(S, n - 1)
         IN  shorter \cup {Append(s, x) : s \in shorter, x \in S}

Batches == SeqsUpTo(SigUniverse, MaxBatch) \ {<<>>}

\* an insert that keeps the entry an id already has
MapInsertKeepFirst(map, sig) == map @@ (sig.id :> sig)

\* sig_map.insert(sig.id.clone(), sig.clone())
MapInsert(map, sig) == (sig.id :> sig) @@ map

\* type_map.entry(sig.threat_type).or_insert_with(Vec::new).push(sig.id)
TypeInsert(tmap, sig) ==
    LET old == IF sig.threat_type \in DOMAIN tmap THEN tmap[sig.threat_type] ELSE <<>>
    IN  (sig.threat_type :> Append(old, sig.id)) @@ tmap

\* the for loop of update_signatures / load_from_cvd over the batch
RECURSIVE InsertAll(_, _)
InsertAll(st, batch) ==
    IF batch = <<>> THEN st
    ELSE InsertAll([map |-> MapInsert(st.map, Head(batch)),
                    tmap |-> TypeInsert(st.tmap, Head(batch))],
                   Tail(batch))

\* calculate_memory_usage over a given map
calculate_memory_usage(map) ==
    LET ids == DOMAIN map
        RECURSIVE Sum(_)
        Sum(S) == IF S = {} THEN 0
                  ELSE LET x == CHOOSE x \in S : TRUE
                       IN  Len(map[x].pattern) + Sum(S \ {x})
    IN  Sum(ids)

get_signature_count == Cardinality(DOMAIN signatures)

get_memory_usage == memory_usage

-----------------------------------------------------------------------------
(* The scan cache: lru::LruCache<String, String>, most recently used first *)

CacheIndex(cache, path) ==
    LET hits == {i \in 1..Len(cache) : cache[i][1] = path}
    IN  IF hits = {} THEN 0 ELSE SetMin(hits)

RemoveAt(s, i) == SubSeq(s, 1, i - 1) \o SubSeq(s, i + 1, Len(s))

\* a cache that never answers
CacheGetMiss(cache, path) == [hit |-> FALSE, id |-> "", cache |-> cache]

\* a get that answers and leaves the order of the entries as it is
CacheGetNoPromote(cache, path) ==
    LET i == CacheIndex(cache, path)
    IN  IF i = 0 THEN [hit |-> FALSE, id |-> "", cache |-> cache]
        ELSE [hit |-> TRUE, id |-> cache[i][2], cache |-> cache]

\* cache.get(path): [hit, id, cache]; a hit moves the entry to the front
CacheGet(cache, path) ==
    LET i == CacheIndex(cache, path)
    IN  IF i = 0 THEN [hit |-> FALSE, id |-> "", cache |-> cache]
        ELSE [hit |-> TRUE, id |-> cache[i][2],
              cache |-> <<cache[i]>> \o RemoveAt(cache, i)]

\* LruCache::put on a cache built with LruCache::new(cap): insert or refresh at
\* the front; a new key at capacity evicts the least recently used entry
LruPut(cache, cap, path, id) ==
    LET i == CacheIndex(cache, path)
    IN  IF i # 0 THEN <<<<path, id>>>> \o RemoveAt(cache, i)
        ELSE IF Len(cache) >= cap
             THEN <<<<path, id>>>> \o SubSeq(cache, 1, Len(cache) - 1)
             ELSE <<<<path, id>>>> \o cache

\* a put that stores a mark instead of the id it is handed
CachePutMark(cache, path, id) == LruPut(cache, CacheCapacity, path, "seen")

\* cache.put(path, id) on the hash_cache of SignatureDatabase::new
CachePut(cache, path, id) == LruPut(cache, CacheCapacity, path, id)

-----------------------------------------------------------------------------
(* Paths (std::path) *)

\* Path::file_name: the last component
file_name(path) == Last(path)

\* Path::starts_with: whole components, never part of a component
path_starts_with(path, base) == IsPrefix(base, path)

\* Path::extension: <<>> for None, <<ext>> for Some(ext). None when the name has
\* no '.', or begins with '.' and has no other '.'; else what follows the last '.'
extension(path) ==
    LET name == file_name(path)
        dots == Positions(name, ".") \ {1}
    IN  IF dots = {} THEN <<>>
        ELSE <<SubSeq(name, SetMax(dots) + 1, Len(name))>>

-----------------------------------------------------------------------------
(* The scanned tree *)

ScanDir == <<"scan">>
ExcludedDir == <<"scan", "excluded">>
FileA == <<"scan", "a.bin">>
FileB == <<"scan", "b.txt">>
FileLog == <<"scan", "t.log">>
FileExe == <<"scan", "excluded", "m.exe">>
LinkC == <<"scan", "c.lnk">>
\* a directory the walk cannot open, and a file that can be stat'ed but not read
LockedDir == <<"scan", "locked">>
FileSecret == <<"scan", "secret.dat">>

FilePaths == {FileA, FileB, FileLog, FileExe, FileSecret}

\* the files std::fs::read fails on
Unreadable == {FileSecret}

\* the entries of the tree in the order a depth-first walk yields them
Tree == <<[path |-> ScanDir, kind |-> "dir"],
          [path |-> FileA, kind |-> "file"],
          [path |-> FileB, kind |-> "file"],
          [path |-> LinkC, kind |-> "symlink"],
          [path |-> LockedDir, kind |-> "error"],
          [path |-> FileSecret, kind |-> "file"],
          [path |-> ExcludedDir, kind |-> "dir"],
          [path |-> FileExe, kind |-> "file"],
          [path |-> FileLog, kind |-> "file"]>>

\* std::fs::read_dir("/"): the top-level entries
TopLevel == <<ScanDir>>

\* WalkDir::new(root).follow_links(false): the root, then what lies below it
Walk(root) == SelectSeq(Tree, LAMBDA e : path_starts_with(e.path, root))

RECURSIVE Flatten(_)
Flatten(ss) == IF ss = <<>> THEN <<>> ELSE Head(ss) \o Flatten(Tail(ss))

-----------------------------------------------------------------------------
(* ScannerEngine (scanner/engine.rs) *)

\* 1024 * 1024, the max_file_size of the integration tests
OneMiB == 1048576

OptAll == [scan_mode |-> "Custom", custom_paths |-> <<ScanDir>>,
           quick_scan_paths |-> <<>>, exclude_paths |-> {},
           exclude_extensions |-> {}, max_file_size |-> Len(InfectedData)]
OptExclude == [scan_mode |-> "Full", custom_paths |-> <<>>,
               quick_scan_paths |-> <<>>,
               exclude_paths |-> {ExcludedDir, <<"scan", "a">>},
               exclude_extensions |-> {"log", "BIN"}, max_file_size |-> OneMiB]
OptSmall == [scan_mode |-> "Quick", custom_paths |-> <<>>,
             quick_scan_paths |-> <<FileA, FileB>>, exclude_paths |-> {},
             exclude_extensions |-> {}, max_file_size |-> Len(InfectedData)]

\* roots that repeat and roots that contain one another
OptNested == [scan_mode |-> "Custom", custom_paths |-> <<FileA, ScanDir, FileA>>,
              quick_scan_paths |-> <<>>, exclude_paths |-> {},
              exclude_extensions |-> {}, max_file_size |-> Len(InfectedData)]

OptionSets == {OptAll, OptExclude, OptSmall, OptNested}

\* ScanStats::new
NewStats == [files_scanned |-> 0, threats_found |-> 0, bytes_scanned |-> 0, errors |-> 0]

\* an exclusion test that looks at the path prefixes only
should_exclude_prefix_only(options, path) ==
    \E p \in options.exclude_paths : path_starts_with(path, p)

\* should_exclude
should_exclude(options, path) ==
    \/ \E p \in options.exclude_paths : path_starts_with(path, p)
    \/ /\ extension(path) # <<>>
       /\ extension(path)[1] \in options.exclude_extensions

\* get_scan_paths
get_scan_paths(options) ==
    CASE options.scan_mode = "Quick" -> options.quick_scan_paths
      [] options.scan_mode = "Full" ->
             SelectSeq(TopLevel, LAMBDA p : ~should_exclude(options, p))
      [] options.scan_mode = "Custom" -> options.custom_paths

\* ThreatType::from(&str)
ToLower(s) ==
    CASE s = "Virus" -> "virus"
      [] s = "Worm" -> "worm"
      [] OTHER -> s

ThreatTypeFrom(s) ==
    LET l == ToLower(s)
    IN  CASE l = "virus" -> "Virus"
          [] l = "trojan" -> "Trojan"
          [] l = "worm" -> "Worm"
          [] OTHER -> "Unknown"

\* RiskLevel::from(&str)
RiskLevelFrom(s) ==
    LET l == IF s = "High" THEN "high" ELSE s
    IN  CASE l = "critical" -> "Critical"
          [] l = "high" -> "High"
          [] l = "medium" -> "Medium"
          [] OTHER -> "Low"

-----------------------------------------------------------------------------
(* Blocking lock acquisition (tokio::sync::RwLock::blocking_read/_write) *)

\* What a blocking_read or blocking_write does for its caller. allow is whether
\* the calling thread may block: FALSE inside an asynchronous execution context
\* of the runtime, where the call panics. held is whether the lock is held, in a
\* conflicting mode, by a holder that never releases it.
blocking_acquire(allow, held) ==
    IF ~allow THEN "panic"
    ELSE IF held THEN "hang"
    ELSE "ok"

-----------------------------------------------------------------------------
(* SignatureDatabase::scan_file_sync *)

\* the ThreatSignature built from a stored signature
ThreatOf(sig) == [id |-> sig.id, threat_type |-> sig.threat_type,
                  risk_level |-> sig.risk_level]

NoThreat == [id |-> "", threat_type |-> "", risk_level |-> ""]

\* a scan that reports, on a miss, a file as soon as the store holds any
\* signature
scan_file_sync_any(path, c, allow) ==
    IF c.poisoned
    THEN [ret |-> "panic", threat |-> NoThreat, c |-> c, read |-> FALSE]
    ELSE IF c.held
    THEN [ret |-> "hang", threat |-> NoThreat, c |-> c, read |-> FALSE]
    ELSE
    LET g == CacheGet(c.cache, path)
        rd == blocking_acquire(allow, sigLockHeld)
        wr == blocking_acquire(allow, sigLockHeld)
        after_get == [c EXCEPT !.cache = g.cache]
        any == CHOOSE id \in DOMAIN signatures : TRUE
    IN  IF g.hit /\ rd = "panic"
        THEN [ret |-> "panic", threat |-> NoThreat,
              c |-> [after_get EXCEPT !.poisoned = TRUE], read |-> FALSE]
        ELSE IF g.hit /\ rd = "hang"
        THEN [ret |-> "hang", threat |-> NoThreat,
              c |-> [after_get EXCEPT !.held = TRUE], read |-> FALSE]
        ELSE IF g.hit /\ g.id \in DOMAIN signatures
        THEN [ret |-> "some", threat |-> ThreatOf(signatures[g.id]),
              c |-> after_get, read |-> FALSE]
        ELSE IF path \in Unreadable
        THEN [ret |-> "none", threat |-> NoThreat, c |-> after_get, read |-> FALSE]
        ELSE IF wr # "ok"
        THEN [ret |-> wr, threat |-> NoThreat, c |-> after_get, read |-> TRUE]
        ELSE IF DOMAIN signatures # {}
        THEN [ret |-> "some", threat |-> ThreatOf(signatures[any]),
              c |-> [after_get EXCEPT
                        !.cache = CachePut(g.cache, path, signatures[any].id)],
              read |-> TRUE]
        ELSE [ret |-> "none", threat |-> NoThreat, c |-> after_get, read |-> TRUE]

\* c is the hash_cache mutex and its content: [cache, poisoned, held].
\* The result: ret is "some", "none", "panic" or "hang"; threat the
\* ThreatSignature of a "some"; c the mutex afterwards; read whether the file's
\* content was read.
scan_file_sync(path, c, allow) ==
    IF c.poisoned
    THEN [ret |-> "panic", threat |-> NoThreat, c |-> c, read |-> FALSE]
    ELSE IF c.held
    THEN [ret |-> "hang", threat |-> NoThreat, c |-> c, read |-> FALSE]
    ELSE
    LET g == CacheGet(c.cache, path)
        rd == blocking_acquire(allow, sigLockHeld)
        wr == blocking_acquire(allow, sigLockHeld)
        after_get == [c EXCEPT !.cache = g.cache]
        file_hash == calculate_hash(files[path])
    IN  IF g.hit /\ rd = "panic"
        THEN [ret |-> "panic", threat |-> NoThreat,
              c |-> [after_get EXCEPT !.poisoned = TRUE], read |-> FALSE]
        ELSE IF g.hit /\ rd = "hang"
        THEN [ret |-> "hang", threat |-> NoThreat,
              c |-> [after_get EXCEPT !.held = TRUE], read |-> FALSE]
        ELSE IF g.hit /\ g.id \in DOMAIN signatures
        THEN [ret |-> "some", threat |-> ThreatOf(signatures[g.id]),
              c |-> after_get, read |-> FALSE]
        ELSE IF path \in Unreadable
        THEN [ret |-> "none", threat |-> NoThreat, c |-> after_get, read |-> FALSE]
        ELSE IF wr # "ok"
        THEN [ret |-> wr, threat |-> NoThreat, c |-> after_get, read |-> TRUE]
        ELSE IF file_hash \in DOMAIN signatures
        THEN [ret |-> "some", threat |-> ThreatOf(signatures[file_hash]),
              c |-> [after_get EXCEPT
                        !.cache = CachePut(g.cache, path, signatures[file_hash].id)],
              read |-> TRUE]
        ELSE [ret |-> "none", threat |-> NoThreat, c |-> after_get, read |-> TRUE]

-----------------------------------------------------------------------------
(* ScannerEngine::start_scan *)

ScanResult(path, threat, size) ==
    [file_path |-> path, threat_type |-> ThreatTypeFrom(threat.threat_type),
     risk_level |-> RiskLevelFrom(threat.risk_level), signature_id |-> threat.id,
     size |-> size]

\* a size test that leaves out the boundary
within_size_strict(len, max_file_size) == len < max_file_size

\* the size test of start_scan on metadata.len()
within_size(len, max_file_size) == len <= max_file_size

\* whether start_scan hands the entry to scan_file_sync
qualifies(options, entry) ==
    /\ ~should_exclude(options, entry.path)
    /\ entry.kind = "file"
    /\ within_size(Len(files[entry.path]), options.max_file_size)

\* The body of the two for loops on one entry. st is the state of the running
\* invocation: [c, results, stats, read, counted, outcome].
ScanEntry(options, entry, st, allow) ==
    IF entry.kind = "error"
    THEN [st EXCEPT !.stats.errors = @ + 1]
    ELSE IF ~qualifies(options, entry) THEN st
    ELSE
    LET path == entry.path
        len == Len(files[path])
        r == scan_file_sync(path, st.c, allow)
        counted == [st EXCEPT !.stats.files_scanned = @ + 1,
                              !.stats.bytes_scanned = @ + len,
                              !.counted = @ \cup {path},
                              !.c = r.c,
                              !.read = IF r.read THEN @ \cup {path} ELSE @]
    IN  CASE r.ret = "some" ->
                 [counted EXCEPT !.stats.threats_found = @ + 1,
                                 !.results = Append(@, ScanResult(path, r.threat, len))]
          [] r.ret = "none" -> counted
          [] OTHER -> [counted EXCEPT !.outcome = r.ret]

RECURSIVE ScanEntries(_, _, _, _)
ScanEntries(options, entries, st, allow) ==
    IF entries = <<>> \/ st.outcome # "ok" THEN st
    ELSE ScanEntries(options, Tail(entries),
                     ScanEntry(options, Head(entries), st, allow), allow)

\* start_scan: every entry of every root, in order
start_scan(options, stats, c, allow) ==
    LET paths == get_scan_paths(options)
        entries == Flatten([i \in 1..Len(paths) |-> Walk(paths[i])])
    IN  ScanEntries(options, entries,
                    [c |-> c, results |-> <<>>, stats |-> stats, read |-> {},
                     counted |-> {}, outcome |-> "ok"],
                    allow)

-----------------------------------------------------------------------------
(* SignatureDatabase::update_signatures *)

\* The call on the store [map, tmap, mem]: the two write guards are taken, the
\* batch is inserted, and calculate_memory_usage then asks for the read lock of
\* signatures while this call's write guard on it is still alive.
update_signatures(store, batch, allow) ==
    LET ins == InsertAll([map |-> store.map, tmap |-> store.tmap], batch)
        rd == blocking_acquire(allow, TRUE)
    IN  [map |-> ins.map, tmap |-> ins.tmap,
         mem |-> IF rd = "ok" THEN calculate_memory_usage(ins.map) ELSE store.mem,
         outcome |-> rd]

-----------------------------------------------------------------------------
(* SignatureDatabase::load_from_cvd *)

UpperHexChars == <<"0", "1", "2", "3", "4", "5", "6", "7",
                   "8", "9", "A", "B", "C", "D", "E", "F">>

\* the value of a hexadecimal digit, either case; -1 for any other character
HexVal(c) ==
    IF \E i \in 1..16 : HexChars[i] = c
    THEN (CHOOSE i \in 1..16 : HexChars[i] = c) - 1
    ELSE IF \E i \in 1..16 : UpperHexChars[i] = c
         THEN (CHOOSE i \in 1..16 : UpperHexChars[i] = c) - 1
         ELSE -1

\* hex::decode: [ok, bytes]; an error on an odd length or a character that is
\* no hexadecimal digit
hex_decode(str) ==
    IF Len(str) % 2 = 1 THEN [ok |-> FALSE, bytes |-> <<>>]
    ELSE IF \E i \in 1..Len(str) : HexVal(SubSeq(str, i, i)) = -1
         THEN [ok |-> FALSE, bytes |-> <<>>]
         ELSE [ok |-> TRUE,
               bytes |-> [k \in 1..(Len(str) \div 2) |->
                             (16 * HexVal(SubSeq(str, (2 * k) - 1, (2 * k) - 1)))
                             + HexVal(SubSeq(str, 2 * k, 2 * k))]]

\* parse_pattern_type
parse_pattern_type(str) ==
    CASE str = "bytecode" -> "ByteSequence"
      [] str = "extended" -> "ExtendedByteSequence"
      [] str = "logical" -> "LogicalExpression"
      [] str = "regex" -> "Regex"
      [] str = "pe" -> "PEHeader"
      [] str = "hash" -> "Hash"
      [] OTHER -> "ByteSequence"

\* The records of main.cvd. csv is "ok" for a record the CSV reader yields and
\* "unreadable" for one it reports an error for; fields is the number of fields
\* of the record (a complete record has at least 7).
RecS1 == [csv |-> "ok", fields |-> 7, id |-> "S1", threat_type |-> "Virus",
          risk_level |-> "High", hex |-> "4d414C57415245", ptype |-> "bytecode"]
RecHash == [csv |-> "ok", fields |-> 7, id |-> calculate_hash(InfectedData),
            threat_type |-> "Worm", risk_level |-> "medium", hex |-> "",
            ptype |-> "hash"]
RecBadHex == [csv |-> "ok", fields |-> 7, id |-> "S2", threat_type |-> "Virus",
              risk_level |-> "High", hex |-> "4g", ptype |-> "bytecode"]
RecOddHex == [csv |-> "ok", fields |-> 7, id |-> "S3", threat_type |-> "Virus",
              risk_level |-> "High", hex |-> "4d4", ptype |-> "bytecode"]
RecUnreadable == [csv |-> "unreadable", fields |-> 0, id |-> "", threat_type |-> "",
                  risk_level |-> "", hex |-> "", ptype |-> ""]
RecShort == [csv |-> "ok", fields |-> 6, id |-> "S4", threat_type |-> "Virus",
             risk_level |-> "High", hex |-> "00", ptype |-> "bytecode"]

RecordUniverse == {RecS1, RecHash, RecBadHex, RecOddHex, RecUnreadable, RecShort}

\* The body of the loop over reader.records() on one record: [ret, sig]. ret is
\* "ok", "err" (the ? operator returns the error) or "panic" (record[6] on a
\* record of fewer than 7 fields).
parse_record(rec) ==
    LET none == [id |-> "", threat_type |-> "", risk_level |-> "",
                 pattern |-> <<>>, pattern_type |-> ""]
        dec == hex_decode(rec.hex)
    IN  IF rec.csv # "ok" THEN [ret |-> "err", sig |-> none]
        ELSE IF rec.fields < 5 THEN [ret |-> "panic", sig |-> none]
        ELSE IF ~dec.ok THEN [ret |-> "err", sig |-> none]
        ELSE IF rec.fields < 7 THEN [ret |-> "panic", sig |-> none]
        ELSE [ret |-> "ok",
              sig |-> [id |-> rec.id, threat_type |-> rec.threat_type,
                       risk_level |-> rec.risk_level, pattern |-> dec.bytes,
                       pattern_type |-> parse_pattern_type(rec.ptype)]]

\* the loop over reader.records(): [ret, sigs], stopping at the first record
\* that does not parse
RECURSIVE parse_records(_, _)
parse_records(records, sigs) ==
    IF records = <<>> THEN [ret |-> "ok", sigs |-> sigs]
    ELSE LET r == parse_record(Head(records))
         IN  IF r.ret # "ok" THEN [ret |-> r.ret, sigs |-> sigs]
             ELSE parse_records(Tail(records), Append(sigs, r.sig))

\* a load that hands to the store what it parsed before the failing record
load_from_cvd_eager(store, cvd, allow) ==
    LET parsed == parse_records(cvd.records, <<>>)
        ins == InsertAll([map |-> store.map, tmap |-> store.tmap], parsed.sigs)
    IN  IF cvd.file # "ok"
        THEN [map |-> store.map, tmap |-> store.tmap, mem |-> store.mem,
              outcome |-> "err", stage |-> "open", batch |-> <<>>]
        ELSE IF parsed.ret # "ok"
        THEN [map |-> ins.map, tmap |-> ins.tmap, mem |-> store.mem,
              outcome |-> parsed.ret, stage |-> "parse", batch |-> <<>>]
        ELSE LET u == update_signatures(store, parsed.sigs, allow)
             IN  [map |-> u.map, tmap |-> u.tmap, mem |-> u.mem, outcome |-> u.outcome,
                  stage |-> "insert", batch |-> parsed.sigs]

\* load_from_cvd on the store [map, tmap, mem]. cvd is [file, records]: file is
\* "ok", or why the archive cannot be used ("missing", "not_zip", "no_main").
\* Every record is parsed into a local vector before the locks are taken; the
\* rest is the code of update_signatures.
load_from_cvd(store, cvd, allow) ==
    LET parsed == parse_records(cvd.records, <<>>)
    IN  IF cvd.file # "ok"
        THEN [map |-> store.map, tmap |-> store.tmap, mem |-> store.mem,
              outcome |-> "err", stage |-> "open", batch |-> <<>>]
        ELSE IF parsed.ret # "ok"
        THEN [map |-> store.map, tmap |-> store.tmap, mem |-> store.mem,
              outcome |-> parsed.ret, stage |-> "parse", batch |-> <<>>]
        ELSE LET u == update_signatures(store, parsed.sigs, allow)
             IN  [map |-> u.map, tmap |-> u.tmap, mem |-> u.mem, outcome |-> u.outcome,
                  stage |-> "insert", batch |-> parsed.sigs]

-----------------------------------------------------------------------------
(* Spec: the signature database and the scanner engine *)

NoScan == [outcome |-> "none", results |-> <<>>, read |-> {}, counted |-> {},
           cache_before |-> <<>>, reported_before |-> {}, allow |-> FALSE]

NoLoad == [op |-> "none", outcome |-> "none", stage |-> "none", batch |-> <<>>,
           records |-> <<>>,
           before |-> [map |-> <<>>, tmap |-> <<>>, mem |-> 0]]

\* no match_pattern call observed
NoMatch == [data |-> <<>>, pattern |-> <<>>, pattern_type |-> "", ret |-> "none"]

\* the tasks that work on one SignatureDatabase at the same time: two callers
\* of scan_file, one of update_signatures, one of get_signature_count
Scanners == {"scan1", "scan2"}
Loader == "load"
Counter == "count"
Tasks == Scanners \cup {Loader, Counter}

\* No task at work. writer and readers are the holders of the RwLock of
\* signatures, mutex the holder of the hash_cache mutex; pc and arg are each
\* task's position and path; pending is what the loader has still to insert;
\* committed the id maps at the boundaries of loads; obs the map a reader saw
\* last; scans the number of scan_file calls so far.
ConcIdle == [writer |-> "none", readers |-> {}, mutex |-> "none",
             pc |-> [t \in Tasks |-> "idle"], arg |-> [t \in Scanners |-> <<>>],
             pending |-> <<>>, committed |-> {<<>>},
             obs |-> [by |-> "none", map |-> <<>>], scans |-> 0]

\* the paths handed to the scan cache when it is called on its own
CachePaths == {FileA, FileB, FileLog, FileExe}

\* no call of the scan cache observed: ops counts the calls, used is the number
\* of the call that used the path last (0: never), last the most recent call
\* with the cache and the uses before it
NoUse == [ops |-> 0, used |-> [p \in CachePaths |-> 0],
          last |-> [op |-> "none", path |-> <<>>, hit |-> FALSE, before |-> <<>>,
                    used |-> [p \in CachePaths |-> 0]]]

\* the tasks that call perform_update on one DatabaseUpdater
Updaters == {"u1", "u2"}

\* the files perform_update downloads, in order
UpdateFiles == <<"main.cvd", "daily.cvd", "bytecode.cvd">>

\* DatabaseUpdater::new, no call made. pc is each task's position in
\* perform_update, next the index of the file it downloads next, temp the files
\* of its temporary directory, ret what its last call returned, seen the value
\* of in_progress its last call read, did what its last call has done;
\* installed are the files copied into the database directory, backups the
\* archives written, calls the number of perform_update calls.
NoUpdate == [in_progress |-> FALSE,
             pc |-> [t \in Updaters |-> "idle"],
             next |-> [t \in Updaters |-> 0],
             temp |-> [t \in Updaters |-> {}],
             ret |-> [t \in Updaters |-> "none"],
             seen |-> [t \in Updaters |-> FALSE],
             did |-> [t \in Updaters |-> {}],
             installed |-> {}, backups |-> 0, calls |-> 0]

\* No FileMonitor constructed. state is whether one exists; inotify whether
\* the handle is Some; poisoned whether a thread panicked holding the mutex of
\* the handle; running the flag; watches the keys of the watch map; threads the
\* live polling threads and their positions; spawned and starts count threads
\* and start calls; last is the most recent call, uninit_add whether it called
\* add_watch while the handle was None.
NoMonitor == [state |-> "absent", inotify |-> FALSE, poisoned |-> FALSE,
              running |-> FALSE, watches |-> {},
              threads |-> <<>>, spawned |-> 0, starts |-> 0,
              last |-> [op |-> "none", ret |-> "none", uninit_add |-> FALSE]]

\* the last signature of the batch that carries the id
LastFor(batch, id) == batch[SetMax({i \in 1..Len(batch) : batch[i].id = id})]

SInit ==
    /\ signatures = <<>>
    /\ signatures_by_type = <<>>
    /\ hash_cache = <<>>
    /\ memory_usage = 0
    /\ sigLockHeld = FALSE
    /\ cacheLockHeld = FALSE
    /\ cachePoisoned = FALSE
    /\ files = [p \in FilePaths |->
                   IF p \in {FileB, FileSecret} THEN CleanData ELSE InfectedData]
    /\ engine = [options |-> OptAll, stats |-> NewStats, runs |-> 0]
    /\ scan = NoScan
    /\ load = NoLoad
    /\ inserted = <<>>
    /\ reported = {}
    /\ loads = 0
    /\ matched = NoMatch
    /\ conc = ConcIdle
    /\ lru = NoUse
    /\ upd = NoUpdate
    /\ mon = NoMonitor

\* a caller hands a batch to update_signatures
UpdateSignatures(batch, allow) ==
    /\ loads < MaxLoads
    /\ ~sigLockHeld
    /\ LET r == update_signatures([map |-> signatures, tmap |-> signatures_by_type,
                                   mem |-> memory_usage], batch, allow)
       IN  /\ signatures' = r.map
           /\ signatures_by_type' = r.tmap
           /\ memory_usage' = r.mem
           /\ sigLockHeld' = (r.outcome = "hang")
           /\ load' = [op |-> "update_signatures", outcome |-> r.outcome,
                       stage |-> "insert", batch |-> batch, records |-> <<>>,
                       before |-> [map |-> signatures, tmap |-> signatures_by_type,
                                   mem |-> memory_usage]]
    /\ inserted' = [id \in DOMAIN inserted \cup {batch[i].id : i \in 1..Len(batch)} |->
                       IF \E i \in 1..Len(batch) : batch[i].id = id
                       THEN LastFor(batch, id) ELSE inserted[id]]
    /\ loads' = loads + 1
    /\ scan' = NoScan
    /\ UNCHANGED <<hash_cache, cacheLockHeld, cachePoisoned, files, engine, reported>>
    /\ UNCHANGED <<qvars, xvars>>

\* a caller loads a signature file
LoadFromCvd(cvd, allow) ==
    /\ loads < MaxLoads
    /\ ~sigLockHeld
    /\ LET r == load_from_cvd([map |-> signatures, tmap |-> signatures_by_type,
                               mem |-> memory_usage], cvd, allow)
       IN  /\ signatures' = r.map
           /\ signatures_by_type' = r.tmap
           /\ memory_usage' = r.mem
           /\ sigLockHeld' = (r.outcome = "hang")
           /\ load' = [op |-> "load_from_cvd", outcome |-> r.outcome,
                       stage |-> r.stage, batch |-> r.batch, records |-> cvd.records,
                       before |-> [map |-> signatures, tmap |-> signatures_by_type,
                                   mem |-> memory_usage]]
           /\ inserted' =
                 [id \in DOMAIN inserted \cup {r.batch[i].id : i \in 1..Len(r.batch)} |->
                     IF \E i \in 1..Len(r.batch) : r.batch[i].id = id
                     THEN LastFor(r.batch, id) ELSE inserted[id]]
    /\ loads' = loads + 1
    /\ scan' = NoScan
    /\ UNCHANGED <<hash_cache, cacheLockHeld, cachePoisoned, files, engine, reported>>
    /\ UNCHANGED <<qvars, xvars>>

\* ScannerEngine::new
NewEngine(options) ==
    /\ engine' = [options |-> options, stats |-> NewStats, runs |-> 0]
    /\ scan' = NoScan
    /\ load' = NoLoad
    /\ UNCHANGED <<signatures, signatures_by_type, hash_cache, memory_usage, sigLockHeld,
                   cacheLockHeld, cachePoisoned, files, inserted, reported, loads>>
    /\ UNCHANGED <<qvars, xvars>>

\* one invocation of start_scan on the current engine
StartScan(allow) ==
    /\ engine.runs < MaxScans
    /\ LET r == start_scan(engine.options, engine.stats,
                           [cache |-> hash_cache, poisoned |-> cachePoisoned,
                            held |-> cacheLockHeld], allow)
           found == {<<r.results[i].file_path, r.results[i].signature_id>> :
                        i \in 1..Len(r.results)}
       IN  /\ hash_cache' = r.c.cache
           /\ cachePoisoned' = r.c.poisoned
           /\ cacheLockHeld' = r.c.held
           /\ engine' = [engine EXCEPT !.stats = r.stats, !.runs = @ + 1]
           /\ scan' = [outcome |-> r.outcome,
                       results |-> IF r.outcome = "ok" THEN r.results ELSE <<>>,
                       read |-> r.read, counted |-> r.counted,
                       cache_before |-> hash_cache, reported_before |-> reported,
                       allow |-> allow]
           /\ reported' = IF r.outcome = "ok" THEN reported \cup found ELSE reported
    /\ load' = NoLoad
    /\ UNCHANGED <<signatures, signatures_by_type, memory_usage, sigLockHeld, files,
                   inserted, loads>>
    /\ UNCHANGED <<qvars, xvars>>

\* some process overwrites a file of the tree
Overwrite(path, content) ==
    /\ files[path] # content
    /\ files' = [files EXCEPT ![path] = content]
    /\ scan' = NoScan
    /\ load' = NoLoad
    /\ UNCHANGED <<signatures, signatures_by_type, hash_cache, memory_usage, sigLockHeld,
                   cacheLockHeld, cachePoisoned, engine, inserted, reported, loads>>
    /\ UNCHANGED <<qvars, xvars>>

SNext ==
    \/ \E sig \in {SigS1, SigHash}, allow \in BOOLEAN : UpdateSignatures(<<sig>>, allow)
    \/ \E options \in OptionSets : NewEngine(options)
    \/ \E allow \in BOOLEAN : StartScan(allow)
    \/ \E content \in Contents : Overwrite(FileA, content)

-----------------------------------------------------------------------------
(* QuarantineManager (core/security.rs): the cipher and the tag *)

\* the tag is 32 bytes (HMAC-SHA256); decrypt_and_copy splits it off
TagLen == 32
\* Aes256::new_from_slice accepts a key of exactly 32 bytes
KeyLen == 32

RECURSIVE XorBits(_, _)
XorBits(a, b) ==
    IF a = 0 /\ b = 0 THEN 0
    ELSE (((a % 2) + (b % 2)) % 2) + 2 * XorBits(a \div 2, b \div 2)

\* the exclusive or of two bytes, tabulated
XorTable == [a \in 0..255 |-> [b \in 0..255 |-> XorBits(a, b)]]

Xor(a, b) == XorTable[a][b]

\* Byte j (0-based) of the key stream of the counter-mode cipher, nonce zero.
\* The block cipher is replaced by a keyed byte function.
KeyStream(key, j) == ((key[(j % Len(key)) + 1] * 7) + (j * 13) + 5) % 256

\* counter mode: encryption and decryption are the same XOR with the key stream
ApplyCtr(data, key) == [j \in 1..Len(data) |-> Xor(data[j], KeyStream(key, j - 1))]

\* The 32-byte tag of a message under a key. HMAC-SHA256 is replaced by a keyed
\* encoding of the message's length and bytes: two different messages of fewer
\* than TagLen bytes never share a tag (the collision freedom the program relies
\* on), and the tag depends on the key.
Mac(key, msg) ==
    [i \in 1..TagLen |->
        LET k == IF key = <<>> THEN 0 ELSE KeyStream(key, i)
            m == IF i = 1 THEN Len(msg) % 256
                 ELSE IF i - 1 <= Len(msg) THEN msg[i - 1] ELSE 0
        IN  Xor(m, k)]

\* encrypt_aes_256_gcm: [ok, bytes]; an error when the cipher rejects the key
encrypt_aes_256_gcm(data, key) ==
    IF Len(key) # KeyLen THEN [ok |-> FALSE, bytes |-> <<>>]
    ELSE LET encrypted == ApplyCtr(data, key)
         IN  [ok |-> TRUE, bytes |-> encrypted \o Mac(key, encrypted)]

-----------------------------------------------------------------------------
(* QuarantineManager: the file system it works on *)

HomeDir == "home"
QuarantineDir == "q"
CurrentDir == "cwd"

\* the files a caller may quarantine; the last has no file-name component
HomeA == <<HomeDir, "a.bin">>
HomeDoc == <<HomeDir, "my_doc">>
HomeDots == <<HomeDir, "..">>
HomePaths == {HomeA, HomeDoc}

QContents == {<<>>, <<65>>, <<0, 255>>}

\* a key of the right length, and one the cipher rejects
GoodKey == [i \in 1..KeyLen |-> i]
ShortKey == <<1, 2, 3>>

\* an I/O step of a call that the operating system makes fail, or "none"
Faults == {"none", "create", "write", "remove"}

Exists(d, path) == path \in DOMAIN d

WriteFile(d, path, bytes) == (path :> bytes) @@ d

RemoveFile(d, path) == [p \in DOMAIN d \ {path} |-> d[p]]

\* what a write that fails part-way leaves of the bytes: nothing, or all but the last
Partial(bytes, cut) ==
    IF cut = 0 \/ bytes = <<>> THEN <<>> ELSE SubSeq(bytes, 1, Len(bytes) - 1)

\* std::fs::copy(src, dst): [ok, disk]
fs_copy(d, src, dst, fault, cut) ==
    IF ~Exists(d, src) \/ fault = "create" THEN [ok |-> FALSE, disk |-> d]
    ELSE IF fault = "write" /\ d[src] # <<>>
    THEN [ok |-> FALSE, disk |-> WriteFile(d, dst, Partial(d[src], cut))]
    ELSE [ok |-> TRUE, disk |-> WriteFile(d, dst, d[src])]

\* std::fs::write(dst, bytes): [ok, disk]
fs_write(d, dst, bytes, fault, cut) ==
    IF fault = "create" THEN [ok |-> FALSE, disk |-> d]
    ELSE IF fault = "write" /\ bytes # <<>>
    THEN [ok |-> FALSE, disk |-> WriteFile(d, dst, Partial(bytes, cut))]
    ELSE [ok |-> TRUE, disk |-> WriteFile(d, dst, bytes)]

\* tokio::fs::File::create(dst) then write_all(bytes), the file dropped without
\* a flush: write_all returns once the bytes are handed to the background write,
\* so a failure of that write reaches nobody. [ok, disk]
tokio_create_write(d, dst, bytes, fault, cut) ==
    IF fault = "create" THEN [ok |-> FALSE, disk |-> d]
    ELSE IF fault = "write" /\ bytes # <<>>
    THEN [ok |-> TRUE, disk |-> WriteFile(d, dst, Partial(bytes, cut))]
    ELSE [ok |-> TRUE, disk |-> WriteFile(d, dst, bytes)]

-----------------------------------------------------------------------------
(* QuarantineManager: quarantine_file *)

\* Path::file_name: <<>> for None (the path ends in ".."), else <<name>>
opt_file_name(path) == IF Last(path) = ".." THEN <<>> ELSE <<Last(path)>>

Digit(n) == HexChars[n + 1]
Pad2(n) == Digit(n \div 10) \o Digit(n % 10)

\* the day of the behaviour, as %Y%m%d prints it
DateStr == "20240101"

\* chrono::Local::now().format("%Y%m%d_%H%M%S")
TimeStamp(t) ==
    DateStr \o "_" \o Pad2(t \div 3600) \o Pad2((t \div 60) % 60) \o Pad2(t % 60)

\* format!("{}_{}", timestamp, file_name)
quarantine_name(t, name) == TimeStamp(t) \o "_" \o name

\* encrypt_and_copy: [ok, disk]
encrypt_and_copy(d, src, dst, key, fault, cut) ==
    IF ~Exists(d, src) THEN [ok |-> FALSE, disk |-> d]
    ELSE LET enc == encrypt_aes_256_gcm(d[src], key)
         IN  IF ~enc.ok THEN [ok |-> FALSE, disk |-> d]
             ELSE tokio_create_write(d, dst, enc.bytes, fault, cut)

\* quarantine_file: [ok, disk, path]
quarantine_file(d, key_opt, file_path, t, fault, cut) ==
    IF opt_file_name(file_path) = <<>> THEN [ok |-> FALSE, disk |-> d, path |-> <<>>]
    ELSE
    LET quarantine_path == <<QuarantineDir, quarantine_name(t, opt_file_name(file_path)[1])>>
        copied == IF key_opt # <<>>
                  THEN encrypt_and_copy(d, file_path, quarantine_path, key_opt[1], fault, cut)
                  ELSE fs_copy(d, file_path, quarantine_path, fault, cut)
    IN  IF ~copied.ok THEN [ok |-> FALSE, disk |-> copied.disk, path |-> <<>>]
        ELSE IF fault = "remove" \/ ~Exists(copied.disk, file_path)
        THEN [ok |-> FALSE, disk |-> copied.disk, path |-> <<>>]
        ELSE [ok |-> TRUE, disk |-> RemoveFile(copied.disk, file_path),
              path |-> quarantine_path]

-----------------------------------------------------------------------------
(* QuarantineManager: restore_file and delete_quarantined *)

\* name.splitn(2, '_'): the parts around the first '_', or the name alone
splitn2(name) ==
    LET us == Positions(name, "_")
    IN  IF us = {} THEN <<name>>
        ELSE <<SubSeq(name, 1, SetMin(us) - 1), SubSeq(name, SetMin(us) + 1, Len(name))>>

\* a verification that accepts every tag
verify_tag_any(key, encrypted, tag) == TRUE

\* hmac.update(encrypted); hmac.verify(tag)
verify_tag(key, encrypted, tag) == Mac(key, encrypted) = tag

\* a restore that writes the ciphertext as it is
decrypt_and_copy_raw(d, src, dst, key, fault, cut) ==
    LET content == d[src]
        encrypted == SubSeq(content, 1, Len(content) - TagLen)
    IN  IF Len(content) < TagLen THEN [ok |-> FALSE, disk |-> d]
        ELSE fs_write(d, dst, encrypted, fault, cut)

\* decrypt_and_copy: [ok, disk]
decrypt_and_copy(d, src, dst, key, fault, cut) ==
    LET content == d[src]
        data_len == Len(content) - TagLen
        encrypted == SubSeq(content, 1, data_len)
        tag == SubSeq(content, data_len + 1, Len(content))
    IN  IF Len(content) < TagLen THEN [ok |-> FALSE, disk |-> d]
        ELSE IF ~verify_tag(key, encrypted, tag) THEN [ok |-> FALSE, disk |-> d]
        ELSE IF Len(key) # KeyLen THEN [ok |-> FALSE, disk |-> d]
        ELSE fs_write(d, dst, ApplyCtr(encrypted, key), fault, cut)

\* std::env::current_dir()?.join(original_name)
restore_path_of(original_name) == <<CurrentDir, original_name>>

\* a restore that moves the artifact out of the quarantine directory
restore_file_move(d, key_opt, quarantine_path, fault, cut) ==
    IF ~Exists(d, quarantine_path) THEN [ok |-> FALSE, disk |-> d, path |-> <<>>]
    ELSE
    LET parts == splitn2(Last(quarantine_path))
    IN  IF Len(parts) < 2 THEN [ok |-> FALSE, disk |-> d, path |-> <<>>]
        ELSE
        LET restore_path == restore_path_of(parts[2])
            r == IF key_opt # <<>>
                 THEN decrypt_and_copy(d, quarantine_path, restore_path, key_opt[1],
                                       fault, cut)
                 ELSE fs_copy(d, quarantine_path, restore_path, fault, cut)
        IN  IF r.ok
            THEN [ok |-> TRUE, disk |-> RemoveFile(r.disk, quarantine_path),
                  path |-> restore_path]
            ELSE [ok |-> FALSE, disk |-> r.disk, path |-> <<>>]

\* restore_file: [ok, disk, path]
restore_file(d, key_opt, quarantine_path, fault, cut) ==
    IF ~Exists(d, quarantine_path) THEN [ok |-> FALSE, disk |-> d, path |-> <<>>]
    ELSE
    LET parts == splitn2(Last(quarantine_path))
    IN  IF Len(parts) < 2 THEN [ok |-> FALSE, disk |-> d, path |-> <<>>]
        ELSE
        LET restore_path == restore_path_of(parts[2])
            r == IF key_opt # <<>>
                 THEN decrypt_and_copy(d, quarantine_path, restore_path, key_opt[1],
                                       fault, cut)
                 ELSE fs_copy(d, quarantine_path, restore_path, fault, cut)
        IN  [ok |-> r.ok, disk |-> r.disk, path |-> IF r.ok THEN restore_path ELSE <<>>]

\* a delete that fails on an artifact that does not exist
delete_quarantined_strict(d, quarantine_path, fault) ==
    IF Exists(d, quarantine_path) /\ fault # "remove"
    THEN [ok |-> TRUE, disk |-> RemoveFile(d, quarantine_path)]
    ELSE [ok |-> FALSE, disk |-> d]

\* delete_quarantined: [ok, disk]
delete_quarantined(d, quarantine_path, fault) ==
    IF Exists(d, quarantine_path)
    THEN IF fault = "remove" THEN [ok |-> FALSE, disk |-> d]
         ELSE [ok |-> TRUE, disk |-> RemoveFile(d, quarantine_path)]
    ELSE [ok |-> TRUE, disk |-> d]

-----------------------------------------------------------------------------
(* QSpec: the quarantine manager *)

\* seconds the clock may advance in one behaviour
MaxClock == 1
\* calls and file creations in one behaviour
MaxQOps == 2

\* 12:00:00
Noon == 12 * 3600

Artifacts(d) == {p \in DOMAIN d : p[1] = QuarantineDir}

MissingArtifact == <<QuarantineDir, "missing">>

\* what is known of a path that no quarantine_file call has written
NoOrigin == [name |-> "", content |-> <<>>, source |-> <<>>, tampered |-> FALSE,
             restored |-> FALSE]

\* what is known of the artifact at path before a call
PriorOf(path) == IF path \in DOMAIN origin THEN origin[path] ELSE NoOrigin

NoCall == [op |-> "none", ok |-> TRUE, arg |-> <<>>, path |-> <<>>, fault |-> "none",
           before |-> <<>>, prior |-> NoOrigin]

QStart(key_opt, content) ==
    /\ encryption_key = key_opt
    /\ disk = (HomeA :> content) @@ (HomeDoc :> <<65>>)
    /\ now = Noon
    /\ qret = NoCall
    /\ origin = <<>>
    /\ qops = 0

QInit ==
    /\ SInit
    /\ \E key_opt \in {<<>>, <<GoodKey>>, <<ShortKey>>}, c \in {<<>>, <<0, 255>>} :
          QStart(key_opt, c)

\* a caller quarantines a file
QuarantineFile(file_path, fault, cut) ==
    /\ qops < MaxQOps
    /\ LET r == quarantine_file(disk, encryption_key, file_path, now, fault, cut)
           dst == <<QuarantineDir, quarantine_name(now, Last(file_path))>>
           written == Exists(r.disk, dst) /\ (~Exists(disk, dst) \/ r.disk[dst] # disk[dst])
       IN  /\ disk' = r.disk
           /\ qret' = [op |-> "quarantine", ok |-> r.ok, arg |-> file_path,
                       path |-> r.path, fault |-> fault, before |-> disk,
                       prior |-> PriorOf(dst)]
           /\ origin' =
                 IF r.ok
                 THEN (r.path :> [name |-> Last(file_path), content |-> disk[file_path],
                                  source |-> file_path, tampered |-> FALSE,
                                  restored |-> FALSE]) @@ origin
                 ELSE IF written THEN [p \in DOMAIN origin \ {dst} |-> origin[p]]
                 ELSE origin
    /\ qops' = qops + 1
    /\ UNCHANGED <<encryption_key, now>>
    /\ UNCHANGED <<svars, xvars>>

\* a caller restores a file from the quarantine directory (or any other path)
RestoreFile(quarantine_path, fault, cut) ==
    /\ qops < MaxQOps
    /\ LET r == restore_file(disk, encryption_key, quarantine_path, fault, cut)
       IN  /\ disk' = r.disk
           /\ qret' = [op |-> "restore", ok |-> r.ok, arg |-> quarantine_path,
                       path |-> r.path, fault |-> fault, before |-> disk,
                       prior |-> PriorOf(quarantine_path)]
           /\ origin' = IF r.ok /\ quarantine_path \in DOMAIN origin
                        THEN [origin EXCEPT ![quarantine_path].restored = TRUE]
                        ELSE origin
    /\ qops' = qops + 1
    /\ UNCHANGED <<encryption_key, now>>
    /\ UNCHANGED <<svars, xvars>>

\* a caller deletes an artifact
DeleteQuarantined(quarantine_path, fault) ==
    /\ qops < MaxQOps
    /\ LET r == delete_quarantined(disk, quarantine_path, fault)
       IN  /\ disk' = r.disk
           /\ qret' = [op |-> "delete", ok |-> r.ok, arg |-> quarantine_path,
                       path |-> <<>>, fault |-> fault, before |-> disk,
                       prior |-> PriorOf(quarantine_path)]
           /\ origin' = [p \in DOMAIN origin \cap DOMAIN r.disk |-> origin[p]]
    /\ qops' = qops + 1
    /\ UNCHANGED <<encryption_key, now>>
    /\ UNCHANGED <<svars, xvars>>

\* somebody changes one byte of an artifact that a quarantine call produced
Tamper(path, i, mask) ==
    /\ path \in DOMAIN origin
    /\ ~origin[path].tampered
    /\ i \in 1..Len(disk[path])
    /\ disk' = [disk EXCEPT ![path][i] = Xor(@, mask)]
    /\ origin' = [origin EXCEPT ![path].tampered = TRUE]
    /\ qret' = NoCall
    /\ UNCHANGED <<encryption_key, now, qops>>
    /\ UNCHANGED <<svars, xvars>>

\* a user creates a file again where a quarantined one was
CreateFile(path, content) ==
    /\ qops < MaxQOps
    /\ ~Exists(disk, path)
    /\ disk' = WriteFile(disk, path, content)
    /\ qret' = NoCall
    /\ qops' = qops + 1
    /\ UNCHANGED <<encryption_key, now, origin>>
    /\ UNCHANGED <<svars, xvars>>

\* a second passes
Tick ==
    /\ now < Noon + MaxClock
    /\ now' = now + 1
    /\ qret' = NoCall
    /\ UNCHANGED <<encryption_key, disk, origin, qops>>
    /\ UNCHANGED <<svars, xvars>>

\* the inputs of a call: a fault, and how much a failing write leaves behind
FaultCuts(faults) == {fc \in faults \X {0, 1} : fc[2] = 0 \/ fc[1] = "write"}

QNext ==
    \/ \E p \in HomePaths \cup {HomeDots}, fc \in FaultCuts(Faults) :
          QuarantineFile(p, fc[1], fc[2])
    \/ \E p \in Artifacts(disk) \cup {MissingArtifact, HomeA},
          fault \in Faults \ {"remove"} : RestoreFile(p, fault, 1)
    \/ \E p \in Artifacts(disk) \cup {MissingArtifact}, fault \in {"none", "remove"} :
          DeleteQuarantined(p, fault)
    \/ \E p \in HomePaths, c \in QContents : CreateFile(p, c)
    \/ Tick

\* the quarantine manager with somebody changing bytes of its artifacts
TNext ==
    \/ \E fc \in FaultCuts({"none", "write"}) : QuarantineFile(HomeA, fc[1], fc[2])
    \/ \E p \in Artifacts(disk), fault \in Faults \ {"remove"} : RestoreFile(p, fault, 1)
    \/ \E p \in Artifacts(disk), i \in 1..(TagLen + 2), mask \in {1, 128} : Tamper(p, i, mask)

\* a file of another directory with the file name of HomeA, and a file that an
\* earlier session quarantined
OtherA == <<"other", "a.bin">>
HomeOld == <<HomeDir, "old.bin">>

\* the artifact of HomeOld, written a second before noon
OldArtifact == <<QuarantineDir, quarantine_name(Noon - 1, Last(HomeOld))>>

\* QuarantineManager::new on a quarantine directory that holds the artifact of
\* an earlier quarantine_file(HomeOld) under the same key
AStart(key_opt) ==
    /\ encryption_key = key_opt
    /\ disk = quarantine_file((HomeOld :> <<65>>), key_opt, HomeOld, Noon - 1, "none", 0).disk
                @@ (HomeA :> <<0, 255>>) @@ (OtherA :> <<65>>)
    /\ now = Noon
    /\ qret = NoCall
    /\ origin = (OldArtifact :> [name |-> Last(HomeOld), content |-> <<65>>,
                                 source |-> HomeOld, tampered |-> FALSE,
                                 restored |-> FALSE])
    /\ qops = 0

AInit ==
    /\ SInit
    /\ \E key_opt \in {<<>>, <<GoodKey>>} : AStart(key_opt)

\* the life of artifacts: quarantine, restore and delete calls on them
ANext ==
    \/ \E p \in {HomeA, OtherA} : QuarantineFile(p, "none", 0)
    \/ \E p \in Artifacts(disk), fault \in {"none", "create"} : RestoreFile(p, fault, 0)
    \/ \E p \in Artifacts(disk) \cup {OldArtifact}, fault \in {"none", "remove"} :
          DeleteQuarantined(p, fault)
    \/ Tick

-----------------------------------------------------------------------------
(* RSpec: the scan cache, called on its own *)

\* the capacity of the cache under test (10000 in the program)
SmallCapacity == 2
\* calls of the cache in one behaviour
MaxCacheOps == 4

\* cache.get(&path_str) of scan_file and scan_file_sync
CacheGetCall(path) ==
    /\ lru.ops < MaxCacheOps
    /\ LET r == CacheGet(hash_cache, path)
       IN  /\ hash_cache' = r.cache
           /\ lru' = [ops |-> lru.ops + 1,
                      used |-> IF r.hit THEN [lru.used EXCEPT ![path] = lru.ops + 1]
                               ELSE lru.used,
                      last |-> [op |-> "get", path |-> path, hit |-> r.hit,
                                before |-> hash_cache, used |-> lru.used]]
    /\ UNCHANGED <<signatures, signatures_by_type, memory_usage, sigLockHeld,
                   cacheLockHeld, cachePoisoned, files, engine, scan, load, inserted,
                   reported, loads>>
    /\ UNCHANGED <<qvars, matched, conc, upd, mon>>

\* cache.put(path_str, sig.id.clone()) of scan_file and scan_file_sync
CachePutCall(path, id) ==
    /\ lru.ops < MaxCacheOps
    /\ hash_cache' = LruPut(hash_cache, SmallCapacity, path, id)
    /\ lru' = [ops |-> lru.ops + 1,
               used |-> [lru.used EXCEPT ![path] = lru.ops + 1],
               last |-> [op |-> "put", path |-> path, hit |-> FALSE,
                         before |-> hash_cache, used |-> lru.used]]
    /\ UNCHANGED <<signatures, signatures_by_type, memory_usage, sigLockHeld,
                   cacheLockHeld, cachePoisoned, files, engine, scan, load, inserted,
                   reported, loads>>
    /\ UNCHANGED <<qvars, matched, conc, upd, mon>>

RNext ==
    \/ \E path \in CachePaths : CacheGetCall(path)
    \/ \E path \in CachePaths : CachePutCall(path, calculate_hash(files[path]))

-----------------------------------------------------------------------------
(* USpec: DatabaseUpdater::perform_update *)

\* perform_update calls in one behaviour
MaxUpdates == 3

\* a check that lets every call through
already_in_progress_never(u) == FALSE

\* `if status.in_progress` under the status mutex
already_in_progress(u) == u.in_progress

\* the files of a temporary directory in the order install_new_database copies them
InstallOrder(temp) == SelectSeq(UpdateFiles, LAMBDA f : f \in temp)

\* perform_update: the block under the status mutex. The call is rejected, or
\* it sets in_progress and goes on.
PerformUpdateBegin(t) ==
    /\ upd.pc[t] = "idle"
    /\ upd.calls < MaxUpdates
    /\ upd' = IF already_in_progress(upd)
              THEN [upd EXCEPT !.ret[t] = "rejected", !.seen[t] = upd.in_progress,
                               !.did[t] = {}, !.temp[t] = {}, !.calls = @ + 1]
              ELSE [upd EXCEPT !.in_progress = TRUE, !.pc[t] = "tempdir",
                               !.ret[t] = "none", !.seen[t] = upd.in_progress,
                               !.did[t] = {}, !.temp[t] = {}, !.calls = @ + 1]
    /\ UNCHANGED <<svars, qvars, matched, conc, lru, mon>>

\* perform_update: Client::builder().build()? and tempfile::tempdir_in(..)?
PerformUpdateTempDir(t, ok) ==
    /\ upd.pc[t] = "tempdir"
    /\ upd' = IF ok THEN [upd EXCEPT !.pc[t] = "download", !.next[t] = 1]
              ELSE [upd EXCEPT !.pc[t] = "idle", !.ret[t] = "err"]
    /\ UNCHANGED <<svars, qvars, matched, conc, lru, mon>>

\* perform_update: one turn of the loop over the database files. The request
\* fails or a write fails ("fail": the call returns the error and the temporary
\* directory is dropped), the server answers without success ("skip"), or the
\* file is written to the temporary directory ("ok").
PerformUpdateDownload(t, outcome) ==
    /\ upd.pc[t] = "download"
    /\ LET name == UpdateFiles[upd.next[t]]
           last == upd.next[t] = Len(UpdateFiles)
           tried == [upd EXCEPT !.did[t] = @ \cup {"download"}]
       IN  upd' =
             CASE outcome = "fail" ->
                      [tried EXCEPT !.pc[t] = "idle", !.ret[t] = "err", !.temp[t] = {}]
               [] outcome = "skip" ->
                      [tried EXCEPT !.pc[t] = IF last THEN "backup" ELSE "download",
                                    !.next[t] = @ + 1]
               [] outcome = "ok" ->
                      [tried EXCEPT !.pc[t] = IF last THEN "backup" ELSE "download",
                                    !.next[t] = @ + 1,
                                    !.temp[t] = @ \cup {name}]
    /\ UNCHANGED <<svars, qvars, matched, conc, lru, mon>>

\* perform_update: get_latest_version and backup_current_database. tar writes
\* the archive ("created"), tar fails, which is only logged ("tar_failed"), or
\* tar cannot be run and the call returns the error ("spawn_failed").
PerformUpdateBackup(t, outcome) ==
    /\ upd.pc[t] = "backup"
    /\ LET tried == [upd EXCEPT !.did[t] = @ \cup {"backup"}]
       IN  upd' =
             CASE outcome = "spawn_failed" ->
                      [tried EXCEPT !.pc[t] = "idle", !.ret[t] = "err", !.temp[t] = {}]
               [] outcome = "tar_failed" -> [tried EXCEPT !.pc[t] = "install"]
               [] outcome = "created" ->
                      [tried EXCEPT !.pc[t] = "install", !.backups = @ + 1]
    /\ UNCHANGED <<svars, qvars, matched, conc, lru, mon>>

\* perform_update: install_new_database and the rest of the call. copied is the
\* number of files copied: all of them, and the call clears in_progress and
\* returns Ok; or fewer, when a copy fails and the call returns the error.
PerformUpdateInstall(t, copied) ==
    /\ upd.pc[t] = "install"
    /\ LET order == InstallOrder(upd.temp[t])
           done == {order[i] : i \in 1..copied}
           tried == [upd EXCEPT !.did[t] = @ \cup {"install"},
                                !.installed = @ \cup done,
                                !.pc[t] = "idle", !.temp[t] = {}]
       IN  /\ copied \in 0..Len(order)
           /\ upd' = IF copied = Len(order)
                     THEN [tried EXCEPT !.in_progress = FALSE, !.ret[t] = "ok"]
                     ELSE [tried EXCEPT !.ret[t] = "err"]
    /\ UNCHANGED <<svars, qvars, matched, conc, lru, mon>>

UNext ==
    \/ \E t \in Updaters : PerformUpdateBegin(t)
    \/ \E t \in Updaters, ok \in BOOLEAN : PerformUpdateTempDir(t, ok)
    \/ \E t \in Updaters, outcome \in {"ok", "skip", "fail"} :
          PerformUpdateDownload(t, outcome)
    \/ \E t \in Updaters, outcome \in {"created", "tar_failed", "spawn_failed"} :
          PerformUpdateBackup(t, outcome)
    \/ \E t \in Updaters, copied \in 0..Len(UpdateFiles) : PerformUpdateInstall(t, copied)

-----------------------------------------------------------------------------
(* NSpec: FileMonitor and VirusScanner::start_file_monitor *)

\* FileMonitor::start calls on one monitor in one behaviour
MaxStarts == 2

\* FileMonitor::new
NewMonitor == [NoMonitor EXCEPT !.state = "present"]

\* FileMonitor::add_watch: [ret, m]. The handle is unwrapped with expect under
\* the guard of its mutex, so a None handle panics and poisons the mutex; ok is
\* whether inotify accepts the watch.
add_watch(m, path, ok) ==
    IF m.poisoned THEN [ret |-> "panic", m |-> m]
    ELSE IF ~m.inotify THEN [ret |-> "panic", m |-> [m EXCEPT !.poisoned = TRUE]]
    ELSE IF ~ok THEN [ret |-> "err", m |-> m]
    ELSE [ret |-> "ok", m |-> [m EXCEPT !.watches = @ \cup {path}]]

\* FileMonitor::add_default_watches: /tmp is watched when it exists
add_default_watches(m, tmp_exists, ok) ==
    IF tmp_exists THEN add_watch(m, "/tmp", ok) ELSE [ret |-> "ok", m |-> m]

\* FileMonitor::start: [ret, m]. init_ok is whether Inotify::init succeeds.
monitor_start(m, init_ok) ==
    IF m.running THEN [ret |-> "err", m |-> m]
    ELSE IF ~init_ok THEN [ret |-> "err", m |-> m]
    ELSE IF m.poisoned THEN [ret |-> "panic", m |-> m]
    ELSE [ret |-> "ok",
          m |-> [m EXCEPT !.inotify = TRUE, !.running = TRUE,
                          !.threads = ((m.spawned + 1) :> "check") @@ @,
                          !.spawned = @ + 1]]

\* FileMonitor::stop: [ret, m]
monitor_stop(m) ==
    LET stopped == [m EXCEPT !.running = FALSE]
    IN  IF m.poisoned THEN [ret |-> "panic", m |-> stopped]
        ELSE IF m.inotify THEN [ret |-> "ok", m |-> [stopped EXCEPT !.watches = {}]]
        ELSE [ret |-> "ok", m |-> stopped]

\* a caller constructs a FileMonitor
MonitorNew ==
    /\ mon.state = "absent"
    /\ mon' = [NewMonitor EXCEPT !.last = [op |-> "new", ret |-> "ok",
                                           uninit_add |-> FALSE]]
    /\ UNCHANGED <<svars, qvars, matched, conc, lru, upd>>

\* VirusScanner::start_file_monitor on a scanner that holds no monitor:
\* FileMonitor::new, add_default_watches, start, and the monitor is kept when
\* all three succeed
StartFileMonitor(tmp_exists, init_ok) ==
    /\ mon.state = "absent"
    /\ LET a == add_default_watches(NewMonitor, tmp_exists, TRUE)
           st == monitor_start(a.m, init_ok)
           ret == IF a.ret # "ok" THEN a.ret ELSE st.ret
           last == [op |-> "start_file_monitor", ret |-> ret,
                    uninit_add |-> tmp_exists /\ ~NewMonitor.inotify]
       IN  mon' = IF ret = "ok" THEN [st.m EXCEPT !.last = last, !.starts = @ + 1]
                  ELSE [mon EXCEPT !.last = last]
    /\ UNCHANGED <<svars, qvars, matched, conc, lru, upd>>

\* a caller adds a watch
MonitorAddWatch(path, ok) ==
    /\ mon.state = "present"
    /\ LET r == add_watch(mon, path, ok)
       IN  mon' = [r.m EXCEPT !.last = [op |-> "add_watch", ret |-> r.ret,
                                        uninit_add |-> ~mon.inotify]]
    /\ UNCHANGED <<svars, qvars, matched, conc, lru, upd>>

\* a caller starts the monitor
MonitorStart(init_ok) ==
    /\ mon.state = "present"
    /\ mon.starts < MaxStarts
    /\ LET r == monitor_start(mon, init_ok)
       IN  mon' = [r.m EXCEPT !.starts = @ + 1,
                              !.last = [op |-> "start", ret |-> r.ret,
                                        uninit_add |-> FALSE]]
    /\ UNCHANGED <<svars, qvars, matched, conc, lru, upd>>

\* a caller stops the monitor
MonitorStop ==
    /\ mon.state = "present"
    /\ LET r == monitor_stop(mon)
       IN  mon' = [r.m EXCEPT !.last = [op |-> "stop", ret |-> r.ret,
                                        uninit_add |-> FALSE]]
    /\ UNCHANGED <<svars, qvars, matched, conc, lru, upd>>

\* a polling thread finds running set: it locks the handle, reads the events
\* and goes to sleep; it panics when the mutex is poisoned
ThreadPoll(th) ==
    /\ th \in DOMAIN mon.threads
    /\ mon.threads[th] = "check"
    /\ mon.running
    /\ mon' = IF mon.poisoned
              THEN [mon EXCEPT !.threads = [x \in DOMAIN @ \ {th} |-> @[x]]]
              ELSE [mon EXCEPT !.threads[th] = "sleep"]
    /\ UNCHANGED <<svars, qvars, matched, conc, lru, upd>>

\* a polling thread finds running cleared and exits
ThreadExit(th) ==
    /\ th \in DOMAIN mon.threads
    /\ mon.threads[th] = "check"
    /\ ~mon.running
    /\ mon' = [mon EXCEPT !.threads = [x \in DOMAIN @ \ {th} |-> @[x]]]
    /\ UNCHANGED <<svars, qvars, matched, conc, lru, upd>>

\* the sleep of a polling thread ends
ThreadWake(th) ==
    /\ th \in DOMAIN mon.threads
    /\ mon.threads[th] = "sleep"
    /\ mon' = [mon EXCEPT !.threads[th] = "check"]
    /\ UNCHANGED <<svars, qvars, matched, conc, lru, upd>>

NNext ==
    \/ MonitorNew
    \/ \E tmp_exists, init_ok \in BOOLEAN : StartFileMonitor(tmp_exists, init_ok)
    \/ \E path \in {"/tmp", "/home"}, ok \in BOOLEAN : MonitorAddWatch(path, ok)
    \/ \E init_ok \in BOOLEAN : MonitorStart(init_ok)
    \/ MonitorStop
    \/ \E th \in 1..MaxStarts : ThreadPoll(th)
    \/ \E th \in 1..MaxStarts : ThreadExit(th)
    \/ \E th \in 1..MaxStarts : ThreadWake(th)

\* the signature files a caller may load
CvdFiles ==
    {[file |-> "ok", records |-> rs] :
        rs \in SeqsUpTo({RecS1, RecHash, RecBadHex}, MaxBatch)
                \cup {<<RecHash, r>> : r \in RecordUniverse}}
    \cup {[file |-> f, records |-> <<>>] : f \in {"missing", "not_zip", "no_main"}}

\* the signature store alone
LNext == \E batch \in Batches, allow \in BOOLEAN : UpdateSignatures(batch, allow)

\* the signature store loaded from signature files
FNext == \E cvd \in CvdFiles, allow \in BOOLEAN : LoadFromCvd(cvd, allow)

-----------------------------------------------------------------------------
(* CSpec: tasks that share one SignatureDatabase *)

\* scan_file calls in one behaviour
MaxConcScans == 3

\* a read lock that is handed out whoever holds the lock
read_available_always(c) == TRUE

\* RwLock::read / blocking_read can be granted: no writer holds the lock
read_available(c) == c.writer = "none"

\* RwLock::write / blocking_write can be granted: nobody holds the lock
write_available(c) == c.writer = "none" /\ c.readers = {}

\* scan_file: hash_cache.lock(), cache.get(path); on a miss drop(cache) and
\* std::fs::read
ScanFileStart(t, path) ==
    /\ conc.pc[t] = "idle"
    /\ conc.scans < MaxConcScans
    /\ conc.mutex = "none"
    /\ LET g == CacheGet(hash_cache, path)
       IN  /\ hash_cache' = g.cache
           /\ conc' = [conc EXCEPT !.pc[t] = IF g.hit THEN "hit_wait" ELSE "miss_wait",
                                   !.mutex = IF g.hit THEN t ELSE "none",
                                   !.arg[t] = path,
                                   !.scans = @ + 1]
    /\ UNCHANGED <<signatures, signatures_by_type, memory_usage, sigLockHeld,
                   cacheLockHeld, cachePoisoned, files, engine, scan, load, inserted,
                   reported, loads>>
    /\ UNCHANGED <<qvars, matched, lru, upd, mon>>

\* scan_file on a hit: signatures.read().await is granted (the cache mutex
\* is still held)
ScanFileHitAcquire(t) ==
    /\ conc.pc[t] = "hit_wait"
    /\ read_available(conc)
    /\ conc' = [conc EXCEPT !.pc[t] = "hit_lookup", !.readers = @ \cup {t}]
    /\ UNCHANGED <<svars, qvars, matched, lru, upd, mon>>

\* scan_file on a hit: signatures.get(cached); the read guard and the cache
\* guard are dropped; the call returns the signature or goes on as on a miss
ScanFileHitLookup(t) ==
    /\ conc.pc[t] = "hit_lookup"
    /\ LET cached == hash_cache[CacheIndex(hash_cache, conc.arg[t])][2]
       IN  conc' = [conc EXCEPT !.pc[t] = IF cached \in DOMAIN signatures
                                          THEN "idle" ELSE "miss_wait",
                                !.readers = @ \ {t},
                                !.mutex = "none",
                                !.obs = [by |-> t, map |-> signatures]]
    /\ UNCHANGED <<svars, qvars, matched, lru, upd, mon>>

\* scan_file on a miss: signatures.write().await is granted
ScanFileMissAcquire(t) ==
    /\ conc.pc[t] = "miss_wait"
    /\ write_available(conc)
    /\ conc' = [conc EXCEPT !.pc[t] = "miss_lookup", !.writer = t]
    /\ UNCHANGED <<svars, qvars, matched, lru, upd, mon>>

\* scan_file on a miss: signatures.get(&file_hash); when found, hash_cache.lock()
\* and cache.put; the guards are dropped and the call returns
ScanFileMissLookup(t) ==
    /\ conc.pc[t] = "miss_lookup"
    /\ LET file_hash == calculate_hash(files[conc.arg[t]])
           found == file_hash \in DOMAIN signatures
       IN  /\ found => conc.mutex = "none"
           /\ hash_cache' = IF found
                            THEN CachePut(hash_cache, conc.arg[t], signatures[file_hash].id)
                            ELSE hash_cache
           /\ conc' = [conc EXCEPT !.pc[t] = "idle", !.writer = "none",
                                   !.obs = [by |-> t, map |-> signatures]]
    /\ UNCHANGED <<signatures, signatures_by_type, memory_usage, sigLockHeld,
                   cacheLockHeld, cachePoisoned, files, engine, scan, load, inserted,
                   reported, loads>>
    /\ UNCHANGED <<qvars, matched, lru, upd, mon>>

\* update_signatures: signatures.write().await and signatures_by_type.write().await
\* are granted
UpdateStart(batch) ==
    /\ conc.pc[Loader] = "idle"
    /\ loads < MaxLoads
    /\ write_available(conc)
    /\ conc' = [conc EXCEPT !.pc[Loader] = "inserting", !.writer = Loader,
                            !.pending = batch]
    /\ loads' = loads + 1
    /\ UNCHANGED <<signatures, signatures_by_type, hash_cache, memory_usage, sigLockHeld,
                   cacheLockHeld, cachePoisoned, files, engine, scan, load, inserted,
                   reported>>
    /\ UNCHANGED <<qvars, matched, lru, upd, mon>>

\* update_signatures: one turn of the loop over the batch
UpdateInsert ==
    /\ conc.pc[Loader] = "inserting"
    /\ conc.pending # <<>>
    /\ signatures' = MapInsert(signatures, Head(conc.pending))
    /\ signatures_by_type' = TypeInsert(signatures_by_type, Head(conc.pending))
    /\ inserted' = MapInsert(inserted, Head(conc.pending))
    /\ conc' = [conc EXCEPT !.pending = Tail(@)]
    /\ UNCHANGED <<hash_cache, memory_usage, sigLockHeld, cacheLockHeld, cachePoisoned,
                   files, engine, scan, load, reported, loads>>
    /\ UNCHANGED <<qvars, matched, lru, upd, mon>>

\* update_signatures: calculate_memory_usage asks for the read lock under the
\* call's own write guard. Where blocking is not allowed the call panics and
\* the unwinding drops the guards; where it is allowed the call waits forever
\* with the guards held.
UpdateFinish(allow) ==
    /\ conc.pc[Loader] = "inserting"
    /\ conc.pending = <<>>
    /\ LET rd == blocking_acquire(allow, TRUE)
       IN  /\ conc' = [conc EXCEPT !.pc[Loader] = IF rd = "hang" THEN "stuck" ELSE "idle",
                                   !.writer = IF rd = "hang" THEN Loader ELSE "none",
                                   !.committed = @ \cup {signatures}]
           /\ memory_usage' = IF rd = "ok" THEN calculate_memory_usage(signatures)
                              ELSE memory_usage
           /\ sigLockHeld' = (rd = "hang")
    /\ UNCHANGED <<signatures, signatures_by_type, hash_cache, cacheLockHeld,
                   cachePoisoned, files, engine, scan, load, inserted, reported, loads>>
    /\ UNCHANGED <<qvars, matched, lru, upd, mon>>

\* get_signature_count on a thread that may block: blocking_read, len
GetSignatureCount ==
    /\ read_available(conc)
    /\ conc.obs # [by |-> Counter, map |-> signatures]
    /\ conc' = [conc EXCEPT !.obs = [by |-> Counter, map |-> signatures]]
    /\ UNCHANGED <<svars, qvars, matched, lru, upd, mon>>

\* the batches the loader is handed: one or two signatures
ConcBatches == {<<SigHash>>, <<SigS1, SigHash>>, <<SigS1, SigS1b>>}

CNext ==
    \/ \E t \in Scanners, path \in {FileA, FileB} : ScanFileStart(t, path)
    \/ \E t \in Scanners : ScanFileHitAcquire(t)
    \/ \E t \in Scanners : ScanFileHitLookup(t)
    \/ \E t \in Scanners : ScanFileMissAcquire(t)
    \/ \E t \in Scanners : ScanFileMissLookup(t)
    \/ \E batch \in ConcBatches : UpdateStart(batch)
    \/ UpdateInsert
    \/ \E allow \in BOOLEAN : UpdateFinish(allow)
    \/ GetSignatureCount

-----------------------------------------------------------------------------
(* MSpec: the pattern matchers on their own *)

\* bytes of the data handed to a matcher
MaxData == 3
\* bytes of the pattern handed to a matcher
MaxPattern == 3

\* b"AB*XY", b"ZZABQQQ", b"AB*", b"AB", b"xxMALWAR"
PatABStarXY == <<65, 66, Star, 88, 89>>
DataZZABQQQ == <<90, 90, 65, 66, 81, 81, 81>>
PatABStar == <<65, 66, Star>>
DataAB == <<65, 66>>
DataTruncated == SubSeq(InfectedData, 1, 8)

MatchData == SeqsUpTo({65, 66}, MaxData) \cup {DataZZABQQQ, InfectedData, DataTruncated}
MatchPatterns ==
    SeqsUpTo({65, 66, Star, QMark}, MaxPattern) \cup {PatABStarXY, Malware}
PatternTypes == {"ByteSequence", "ExtendedByteSequence", "Hash"}

\* a caller applies match_pattern
MatchPattern(data, pattern, pattern_type) ==
    /\ matched' = [data |-> data, pattern |-> pattern, pattern_type |-> pattern_type,
                   ret |-> match_pattern(data, pattern, pattern_type)]
    /\ UNCHANGED <<svars, qvars, conc, lru, upd, mon>>

\* one call in a behaviour
MNext ==
    /\ matched = NoMatch
    /\ \E data \in MatchData, pattern \in MatchPatterns, pattern_type \in PatternTypes :
          MatchPattern(data, pattern, pattern_type)

-----------------------------------------------------------------------------
(* The specifications *)

Init == SInit /\ QStart(<<>>, <<>>)

Spec == Init /\ [][SNext]_vars

QSpec == QInit /\ [][QNext]_vars

TSpec == QInit /\ [][TNext]_vars
ASpec == AInit /\ [][ANext]_vars
RSpec == Init /\ [][RNext]_vars
USpec == Init /\ [][UNext]_vars
NSpec == Init /\ [][NNext]_vars

LSpec == Init /\ [][LNext]_vars

FSpec == Init /\ [][FNext]_vars

CSpec == Init /\ [][CNext]_vars

MSpec == Init /\ [][MNext]_vars

-----------------------------------------------------------------------------
(* Properties of the scanner: Spec and LSpec *)

\* the results of the last start_scan that name the path
ResultsFor(path) == {i \in 1..Len(scan.results) : scan.results[i].file_path = path}

\* the regular files among the entries the last start_scan walked
WalkedFiles ==
    LET paths == get_scan_paths(engine.options)
        entries == Flatten([i \in 1..Len(paths) |-> Walk(paths[i])])
    IN  {entries[i].path : i \in {j \in 1..Len(entries) : entries[j].kind = "file"}}

\* C1: End-to-end detection. With the store holding the one signature S1
\* (ByteSequence, pattern "MALWARE"), a scan of a.bin = "xxMALWAREyy" and
\* b.txt = "clean" that returns has exactly one result: a.bin with signature_id
\* "S1"; none for b.txt.
C1_EndToEndDetection ==
    (/\ scan.outcome = "ok"
     /\ signatures = ("S1" :> SigS1)
     /\ engine.options = OptSmall
     /\ files[FileA] = InfectedData
     /\ files[FileB] = CleanData)
    => /\ Len(scan.results) = 1
       /\ scan.results[1].file_path = FileA
       /\ scan.results[1].signature_id = "S1"
       /\ ResultsFor(FileB) = {}

\* C2: Exclusion correctness. No result of start_scan names a file whose path
\* starts with an excluded path or whose extension is an excluded extension,
\* whatever the file holds and whatever the cache holds for its path.
C2_ExclusionCorrectness ==
    \A i \in 1..Len(scan.results) :
        LET p == scan.results[i].file_path
        IN  /\ \A e \in engine.options.exclude_paths : ~path_starts_with(p, e)
            /\ \/ extension(p) = <<>>
               \/ extension(p)[1] \notin engine.options.exclude_extensions

\* C2 happens: a scan with exclusions returned results while an excluded file
\* held content whose fingerprint is in the store and had a cached verdict
C2_Witness ==
    /\ scan.outcome = "ok"
    /\ engine.options = OptExclude
    /\ Len(scan.results) > 0
    /\ calculate_hash(files[FileExe]) \in DOMAIN signatures
    /\ CacheIndex(scan.cache_before, FileExe) # 0
    /\ calculate_hash(files[FileLog]) \in DOMAIN signatures
    /\ CacheIndex(scan.cache_before, FileLog) # 0

\* C3: Size boundary. In a scan that returns, a walked regular file that is
\* not excluded and has at most max_file_size bytes is counted and, when its
\* fingerprint is in the store, reported; one of more than max_file_size bytes
\* is not counted, not read and not reported.
C3_SizeBoundary ==
    scan.outcome = "ok" =>
        \A p \in WalkedFiles :
            ~should_exclude(engine.options, p) =>
                /\ Len(files[p]) <= engine.options.max_file_size =>
                      /\ p \in scan.counted
                      /\ calculate_hash(files[p]) \in DOMAIN signatures =>
                            ResultsFor(p) # {}
                /\ Len(files[p]) > engine.options.max_file_size =>
                      /\ p \notin scan.counted
                      /\ p \notin scan.read
                      /\ ResultsFor(p) = {}

\* C3 happens: one file of exactly max_file_size bytes was scanned and
\* reported, one of max_file_size + 1 bytes was skipped, in the same scan
C3_Witness ==
    /\ scan.outcome = "ok"
    /\ engine.options = OptAll
    /\ Len(files[FileLog]) = engine.options.max_file_size
    /\ FileLog \in scan.counted
    /\ ResultsFor(FileLog) # {}
    /\ Len(files[FileA]) = engine.options.max_file_size + 1
    /\ FileA \notin scan.counted
    /\ ResultsFor(FileA) = {}

\* C4: Idempotent upsert. The store holds exactly one entry for every id
\* ever loaded, signature_count counts each id once, and the entry is the
\* signature loaded last under that id.
C4_IdempotentUpsert ==
    /\ DOMAIN signatures = DOMAIN inserted
    /\ get_signature_count = Cardinality(DOMAIN inserted)
    /\ \A id \in DOMAIN inserted : signatures[id] = inserted[id]

\* C4 happens: S1 was loaded, then a second signature S1 with another pattern
C4_Witness ==
    /\ load.batch = <<SigS1, SigS1b>>
    /\ get_signature_count = 1
    /\ signatures["S1"].pattern = SigS1b.pattern
    /\ SigS1b.pattern # SigS1.pattern

\* C10: Cache staleness. In a scan that returns, a scanned path for which the
\* cache held a verdict whose signature is in the store is reported with that
\* verdict and its file is not read, whatever the file holds now.
C10_CacheStaleness ==
    scan.outcome = "ok" =>
        \A p \in scan.counted :
            LET i == CacheIndex(scan.cache_before, p)
            IN  (i # 0 /\ scan.cache_before[i][2] \in DOMAIN signatures) =>
                    /\ p \notin scan.read
                    /\ \E k \in ResultsFor(p) :
                          scan.results[k].signature_id = scan.cache_before[i][2]

\* C10 happens: a.bin was reported by an earlier scan, was overwritten with
\* content of another fingerprint, and the next scan reported it again
C10_Witness ==
    /\ scan.outcome = "ok"
    /\ FileA \in scan.counted
    /\ FileA \notin scan.read
    /\ files[FileA] = CleanData
    /\ \E k \in ResultsFor(FileA) :
          /\ scan.results[k].signature_id # calculate_hash(files[FileA])
          /\ <<FileA, scan.results[k].signature_id>> \in scan.reported_before

\* C11: A scan always completes. In a tree with an inaccessible directory
\* and an unreadable file, every invocation of start_scan returns.
C11_ScanCompletes ==
    (/\ scan.outcome # "none"
     /\ \E i \in 1..Len(Tree) : Tree[i].kind = "error"
     /\ Unreadable # {})
    => scan.outcome = "ok"

-----------------------------------------------------------------------------
(* Properties of the quarantine manager: QSpec and TSpec *)

\* the last call worked on an artifact that a successful quarantine produced
OnOwnArtifact == qret.arg \in DOMAIN origin

\* C5: Quarantine round trip. A restore that succeeds on the unchanged
\* artifact of a quarantine writes a file holding the bytes the quarantined
\* file held, with a key configured and with none.
C5_RoundTrip ==
    (/\ qret.op = "restore"
     /\ qret.ok
     /\ OnOwnArtifact
     /\ ~origin[qret.arg].tampered)
    => /\ Exists(disk, qret.path)
       /\ disk[qret.path] = origin[qret.arg].content

\* C5 happens: with a key, a file of two bytes went through quarantine and restore
C5_Witness ==
    /\ qret.op = "restore"
    /\ qret.ok
    /\ OnOwnArtifact
    /\ encryption_key = <<GoodKey>>
    /\ origin[qret.arg].content = <<0, 255>>
    /\ disk[qret.arg] # origin[qret.arg].content \o Mac(GoodKey, origin[qret.arg].content)
    /\ disk[qret.path] = <<0, 255>>

\* C6: Restore recovers the original file name. A restore that succeeds on
\* the artifact of a quarantine of a file named N writes a file named N.
C6_RestoreRecoversName ==
    (qret.op = "restore" /\ qret.ok /\ OnOwnArtifact)
    => Last(qret.path) = origin[qret.arg].name

\* C7: Tamper detection. With a key configured, a restore of an artifact of
\* which one byte was changed fails and leaves the file system as it was: no
\* output file is written.
C7_TamperDetection ==
    (/\ qret.op = "restore"
     /\ encryption_key # <<>>
     /\ OnOwnArtifact
     /\ origin[qret.arg].tampered)
    => /\ ~qret.ok
       /\ disk = qret.before

\* C7 happens: a restore with no I/O fault was refused on a changed artifact
\* that holds ciphertext and tag
C7_Witness ==
    /\ qret.op = "restore"
    /\ encryption_key = <<GoodKey>>
    /\ OnOwnArtifact
    /\ origin[qret.arg].tampered
    /\ qret.fault = "none"
    /\ Len(disk[qret.arg]) = TagLen + 2
    /\ ~qret.ok

\* what a complete artifact of the bytes holds under the manager's key
ArtifactOf(bytes) ==
    IF encryption_key = <<>> THEN bytes
    ELSE encrypt_aes_256_gcm(bytes, encryption_key[1]).bytes

\* C8: Copy-before-delete. After a quarantine of an existing file, the
\* original is gone only if the artifact holds everything written for it, and
\* a call that failed left the original with its content.
C8_CopyBeforeDelete ==
    (qret.op = "quarantine" /\ Exists(qret.before, qret.arg)) =>
        LET dst == <<QuarantineDir, quarantine_name(now, Last(qret.arg))>>
        IN  /\ ~Exists(disk, qret.arg) =>
                  /\ Exists(disk, dst)
                  /\ disk[dst] = ArtifactOf(qret.before[qret.arg])
            /\ ~qret.ok =>
                  /\ Exists(disk, qret.arg)
                  /\ disk[qret.arg] = qret.before[qret.arg]

\* C9: All-or-nothing. A quarantine or restore that returns an error leaves
\* the file system as it was before the call.
C9_AllOrNothing ==
    (qret.op \in {"quarantine", "restore"} /\ ~qret.ok) => disk = qret.before

-----------------------------------------------------------------------------
(* Properties of the pattern matchers: MSpec *)

\* the pattern occurs in the data as a contiguous run of bytes
Occurs(pattern, data) ==
    \E o \in 0..(Len(data) - Len(pattern)) :
        \A k \in 1..Len(pattern) : data[o + k] = pattern[k]

\* C12: Wildcard matching. The ExtendedByteSequence pattern "AB*XY" matches
\* the data "ZZABQQQ".
C12_WildcardExample ==
    (/\ matched.pattern_type = "ExtendedByteSequence"
     /\ matched.pattern = PatABStarXY
     /\ matched.data = DataZZABQQQ)
    => matched.ret = "match"

\* C13: ByteSequence matching. For every data and every non-empty pattern the
\* match is true exactly when the pattern occurs in the data as a contiguous
\* run of bytes.
C13_ExactBytes ==
    (matched.pattern_type = "ByteSequence" /\ matched.pattern # <<>>)
    => /\ matched.ret \in {"match", "no_match"}
       /\ matched.ret = "match" <=> Occurs(matched.pattern, matched.data)

\* C13 happens: "MALWARE" was found in "xxMALWAREyy"
C13_Witness ==
    /\ matched.pattern_type = "ByteSequence"
    /\ matched.pattern = Malware
    /\ matched.data = InfectedData
    /\ matched.ret = "match"

\* C14: Empty pattern. A ByteSequence match with a pattern of no bytes
\* returns true for every data and never panics.
C14_EmptyPattern ==
    (matched.pattern_type = "ByteSequence" /\ matched.pattern = <<>>)
    => matched.ret = "match"

\* C15 as stated: for ByteSequence and ExtendedByteSequence, a pattern of
\* more bytes than the data never matches.
C15_LongerNeverMatches ==
    (/\ matched.pattern_type \in {"ByteSequence", "ExtendedByteSequence"}
     /\ Len(matched.pattern) > Len(matched.data))
    => matched.ret # "match"

\* C15 amended: a pattern of more bytes than the data never matches as a
\* ByteSequence, and never matches as an ExtendedByteSequence unless it holds
\* a '*'.
C15_LongerNeverMatchesWithoutStar ==
    (/\ Len(matched.pattern) > Len(matched.data)
     /\ \/ matched.pattern_type = "ByteSequence"
        \/ /\ matched.pattern_type = "ExtendedByteSequence"
           /\ Star \notin Range(matched.pattern))
    => matched.ret # "match"

\* C15 happens: a pattern of '?' and literals, longer than the data whose
\* bytes it agrees with, was refused
C15_Witness ==
    /\ matched.pattern_type = "ExtendedByteSequence"
    /\ matched.pattern = <<65, QMark, QMark>>
    /\ matched.data = <<65, 66>>
    /\ matched.ret = "no_match"

\* the tokens of the pattern before index s agree with the start of the data
PrefixAgrees(pattern, s, data) ==
    /\ s - 1 <= Len(data)
    /\ \A k \in 1..(s - 1) : pattern[k] = QMark \/ pattern[k] = data[k]

\* C16: Unconditional '*'. When the tokens before a '*' of an
\* ExtendedByteSequence pattern have matched the start of the data, the result
\* is true, whatever follows the '*' and however much data remains.
C16_UnconditionalStar ==
    matched.pattern_type = "ExtendedByteSequence" =>
        \A s \in 1..Len(matched.pattern) :
            (/\ matched.pattern[s] = Star
             /\ \A k \in 1..(s - 1) : matched.pattern[k] # Star
             /\ PrefixAgrees(matched.pattern, s, matched.data))
            => matched.ret = "match"

-----------------------------------------------------------------------------
(* Properties of the signature store: LSpec and FSpec *)

\* how often the id occurs in the sequence of ids
Occurrences(ids, id) == Cardinality({i \in 1..Len(ids) : ids[i] = id})

\* C19: No duplicate ids, map and type index in sync. Each id of the id map
\* occurs exactly once in the type index, under the threat_type of its
\* signature, and the index holds no id that the map lacks.
C19_TypeIndexInSync ==
    /\ \A id \in DOMAIN signatures :
          \A t \in DOMAIN signatures_by_type :
              Occurrences(signatures_by_type[t], id) =
                  IF t = signatures[id].threat_type THEN 1 ELSE 0
    /\ \A id \in DOMAIN signatures :
          signatures[id].threat_type \in DOMAIN signatures_by_type
    /\ \A t \in DOMAIN signatures_by_type :
          Range(signatures_by_type[t]) \subseteq DOMAIN signatures

\* C20: A failed load leaves the store unchanged. When load_from_cvd ends
\* before or in the parsing of the records, the id map, the type index and the
\* memory footprint are what they were before the call.
C20_FailedLoadKeepsStore ==
    (load.op = "load_from_cvd" /\ load.stage \in {"open", "parse"})
    => /\ load.outcome \in {"err", "panic"}
       /\ signatures = load.before.map
       /\ signatures_by_type = load.before.tmap
       /\ memory_usage = load.before.mem

\* C20 happens: a file whose second record has a malformed pattern was
\* refused by a store that held a signature
C20_Witness ==
    /\ load.op = "load_from_cvd"
    /\ load.stage = "parse"
    /\ load.outcome = "err"
    /\ load.before.map # <<>>
    /\ signatures = load.before.map
    /\ "S1" \notin DOMAIN signatures

-----------------------------------------------------------------------------
(* Properties of tasks that share one SignatureDatabase: CSpec *)

\* C17: Concurrent readers. No scan ever holds the write lock of the
\* signature store; only the loader does.
C17_ScansTakeNoWriteLock == conc.writer \notin Scanners

\* C18: No partially visible update. The id map a reader sees (a lookup of a
\* scan, or get_signature_count) is the map as it was at the boundary of a
\* load: with all of a batch applied or none of it.
C18_NoPartialUpdate == conc.obs.by # "none" => conc.obs.map \in conc.committed

\* C18 happens: a batch of two signatures is half applied while a scan waits
\* for the lock, and a reader has looked at the map after an earlier load
C18_Witness ==
    /\ conc.pc[Loader] = "inserting"
    /\ Len(conc.pending) = 1
    /\ signatures \notin conc.committed
    /\ \E t \in Scanners : conc.pc[t] \in {"hit_wait", "miss_wait"}
    /\ conc.obs.by # "none"
    /\ conc.obs.map # <<>>

\* C21: Per-record error isolation. When load_from_cvd has read a signature
\* file, every well-formed record of the file is in the store, whatever the
\* other records of the file are.
C21_PerRecordIsolation ==
    (load.op = "load_from_cvd" /\ load.stage # "open") =>
        \A i \in 1..Len(load.records) :
            parse_record(load.records[i]).ret = "ok" =>
                load.records[i].id \in DOMAIN signatures

\* C29: Loads terminate. Every call of update_signatures or load_from_cvd
\* that reaches the store returns: it neither panics nor waits forever for
\* the read lock of the map under its own write lock.
C29_LoadsTerminate ==
    (load.op \in {"update_signatures", "load_from_cvd"} /\ load.stage = "insert")
    => load.outcome = "ok"

\* the entries one invocation of start_scan visits, in order, with repetitions
Visited(options) ==
    LET paths == get_scan_paths(options)
    IN  Flatten([i \in 1..Len(paths) |-> Walk(paths[i])])

\* the visits that fail: a traversal error, or a qualifying file that cannot
\* be read
FailedVisits(options) ==
    LET es == Visited(options)
    IN  {i \in 1..Len(es) :
            \/ es[i].kind = "error"
            \/ qualifies(options, es[i]) /\ es[i].path \in Unreadable}

\* C30: Error counting. A completed first invocation on an engine has counted
\* one error for every traversal error and for every qualifying file that
\* could not be read.
C30_ErrorCounting ==
    (scan.outcome = "ok" /\ engine.runs = 1) =>
        engine.stats.errors = Cardinality(FailedVisits(engine.options))

\* C22: One result per detected file per run. The results of one completed
\* invocation of start_scan hold at most one entry for any path, whatever the
\* list of roots is.
C22_OneResultPerFile ==
    scan.outcome = "ok" => \A p \in FilePaths : Cardinality(ResultsFor(p)) <= 1

\* C23: Delete is idempotent. A delete_quarantined call whose removal the
\* operating system does not refuse succeeds whether or not the artifact
\* exists; after a successful call the artifact does not exist and every other
\* file is as before; a call on an artifact that does not exist succeeds and
\* changes nothing; a refused call changes nothing.
C23_DeleteIdempotent ==
    qret.op = "delete" =>
        /\ qret.fault = "none" => qret.ok
        /\ ~Exists(qret.before, qret.arg) => qret.ok /\ disk = qret.before
        /\ qret.ok =>
              /\ ~Exists(disk, qret.arg)
              /\ DOMAIN disk = DOMAIN qret.before \ {qret.arg}
              /\ \A p \in DOMAIN disk : disk[p] = qret.before[p]
        /\ ~qret.ok => disk = qret.before

\* the second of two deletes of the same artifact
C23_Witness ==
    /\ qret.op = "delete" /\ qret.ok /\ qret.arg = OldArtifact
    /\ ~Exists(qret.before, OldArtifact)
    /\ qops = 2
    /\ disk = qret.before

\* C24: Artifact state machine. Restored and Deleted are terminal: a restore or
\* delete call on an artifact that was restored leaves it in existence, and a
\* restore or delete call on an artifact that does not exist leaves it absent
\* and restores nothing.
C24_TerminalStates ==
    qret.op \in {"restore", "delete"} =>
        /\ qret.prior.restored => Exists(disk, qret.arg)
        /\ ~Exists(qret.before, qret.arg) =>
              ~Exists(disk, qret.arg) /\ (qret.op = "restore" => ~qret.ok)

C26_DistinctArtifacts ==
    (qret.op = "quarantine" /\ qret.ok) => qret.prior.source \in {<<>>, qret.arg}

\* the paths the cache holds
CachedPaths(cache) == {cache[i][1] : i \in 1..Len(cache)}

\* the cached path whose last use lies furthest back
LeastRecentlyUsed(cache, used) ==
    CHOOSE p \in CachedPaths(cache) : \A q \in CachedPaths(cache) : used[p] <= used[q]

\* C27: Bounded LRU cache. The cache never holds more entries than its
\* capacity and no path twice. A put of a new path at capacity removes exactly
\* the path whose last use, by a get that hit or by a put, lies furthest back;
\* every other put and every get removes nothing; a put leaves its path
\* cached with its id, and a get hits exactly the cached paths.
C27_BoundedLru ==
    LET b == lru.last.before
        p == lru.last.path
        now_cached == CachedPaths(hash_cache)
    IN  /\ Len(hash_cache) <= SmallCapacity
        /\ Cardinality(now_cached) = Len(hash_cache)
        /\ lru.last.op = "put" =>
              /\ now_cached =
                    IF p \notin CachedPaths(b) /\ Len(b) = SmallCapacity
                    THEN (CachedPaths(b) \ {LeastRecentlyUsed(b, lru.last.used)}) \cup {p}
                    ELSE CachedPaths(b) \cup {p}
              /\ \E i \in 1..Len(hash_cache) :
                    hash_cache[i] = <<p, calculate_hash(files[p])>>
        /\ lru.last.op = "get" =>
              /\ now_cached = CachedPaths(b)
              /\ lru.last.hit <=> p \in CachedPaths(b)

\* a put of a new path at capacity, after the entry that was put first had been
\* used again, so that the entry put after it is the one evicted
C27_Witness ==
    /\ lru.last.op = "put"
    /\ Len(lru.last.before) = SmallCapacity
    /\ lru.last.path \notin CachedPaths(lru.last.before)
    /\ Len(hash_cache) = SmallCapacity
    /\ \E q \in CachedPaths(hash_cache) \ {lru.last.path} :
          /\ lru.used[q] = lru.ops - 1
          /\ lru.used[LeastRecentlyUsed(lru.last.before, lru.last.used)] > 1

\* C28: Deadlock freedom of concurrent scans. No state has one scan holding
\* the cache mutex and waiting for the lock of signatures while another scan
\* holds that lock and waits for the cache mutex.
C28_NoLockCycle ==
    ~ \E a, b \in Scanners :
          /\ a # b
          /\ conc.pc[a] = "hit_wait" /\ conc.mutex = a
          /\ conc.pc[b] = "miss_lookup" /\ conc.writer = b
          /\ calculate_hash(files[conc.arg[b]]) \in DOMAIN signatures

\* the visits of one invocation that start_scan hands to scan_file_sync
QualifyingVisits(options) ==
    LET es == Visited(options)
    IN  {i \in 1..Len(es) : qualifies(options, es[i])}

\* C31: Statistics belong to one invocation. When an invocation of start_scan
\* completes, threats_found is the number of results it returned and
\* files_scanned the number of qualifying files it visited, also when it is
\* not the first invocation on the engine.
C31_StatsPerInvocation ==
    scan.outcome = "ok" =>
        /\ engine.stats.threats_found = Len(scan.results)
        /\ engine.stats.files_scanned = Cardinality(QualifyingVisits(engine.options))

\* the qualifying readable files a completed invocation met first on a miss
MissedFiles ==
    {p \in scan.counted : p \notin Unreadable /\ p \notin CachedPaths(scan.cache_before)}

C33_WildcardWithoutStar ==
    (/\ matched.pattern_type = "ExtendedByteSequence"
     /\ Star \notin Range(matched.pattern))
    => (matched.ret = "match" <=>
            /\ Len(matched.data) >= Len(matched.pattern)
            /\ \A k \in 1..Len(matched.pattern) :
                  matched.pattern[k] = QMark \/ matched.pattern[k] = matched.data[k])

\* a pattern of a literal and a '?' matched data that is longer than it
C33_Witness ==
    /\ matched.pattern_type = "ExtendedByteSequence"
    /\ matched.pattern = <<65, QMark>>
    /\ matched.data = <<65, 66, 65>>
    /\ matched.ret = "match"

\* C34: Memory footprint. The memory_usage cell holds the sum of the pattern
\* lengths of the signatures of the id map: 0 for a new store, and the new sum
\* once a load or update has changed the map.
C34_MemoryFootprint ==
    get_memory_usage = calculate_memory_usage(signatures)

\* C35: Cache holds positive verdicts only. Every entry of the scan cache maps
\* a path to the id of a signature of the store that a completed scan reported
\* for that path; a completed invocation adds entries only for paths it
\* reported, and never for a file it could not read.
C35_CachePositiveOnly ==
    /\ \A i \in 1..Len(hash_cache) :
          /\ hash_cache[i][2] \in DOMAIN signatures
          /\ <<hash_cache[i][1], hash_cache[i][2]>> \in reported
    /\ CachedPaths(hash_cache) \cap Unreadable = {}
    /\ scan.outcome = "ok" =>
          \A p \in CachedPaths(hash_cache) \ CachedPaths(scan.cache_before) :
              ResultsFor(p) # {}

\* a completed invocation that cached a file it reported, read a clean file
\* and failed to read another, and cached neither of the two
C35_Witness ==
    /\ scan.outcome = "ok"
    /\ CachedPaths(hash_cache) \ CachedPaths(scan.cache_before) # {}
    /\ FileB \in scan.read /\ FileB \notin CachedPaths(hash_cache)
    /\ FileSecret \in scan.counted /\ FileSecret \notin CachedPaths(hash_cache)

\* C36: Update flag is released. When no perform_update call is under way,
\* whatever the calls made so far have returned, status.in_progress is false.
C36_UpdateFlagReleased ==
    (\A t \in Updaters : upd.pc[t] = "idle") => ~upd.in_progress

\* the tasks past the in_progress check of perform_update
UpdatersAtWork == {t \in Updaters : upd.pc[t] # "idle"}

\* C37: Single update at a time. At most one perform_update is past its
\* in_progress check, and in_progress is set while one is; a call that read
\* in_progress as true was rejected and has downloaded, backed up and installed
\* nothing.
C37_SingleUpdate ==
    /\ Cardinality(UpdatersAtWork) <= 1
    /\ UpdatersAtWork # {} => upd.in_progress
    /\ \A t \in Updaters :
          /\ upd.seen[t] =>
                upd.ret[t] = "rejected" /\ upd.pc[t] = "idle" /\ upd.did[t] = {}
          /\ upd.ret[t] = "rejected" => upd.seen[t]

\* a call was rejected while the call of another task has downloaded a file
C37_Witness ==
    \E t, u \in Updaters :
        /\ t # u
        /\ upd.ret[t] = "rejected"
        /\ upd.pc[u] = "backup" /\ upd.temp[u] # {}

\* C38: Monitor initialisation order. A call of start_file_monitor never calls
\* add_watch on a FileMonitor whose inotify handle is not initialised.
C38_MonitorInitOrder ==
    mon.last.op = "start_file_monitor" => ~mon.last.uninit_add

\* C39: Single monitor thread. Across the start and stop calls on one
\* FileMonitor at most one of its polling threads is live.
C39_SingleMonitorThread ==
    Cardinality(DOMAIN mon.threads) <= 1

====
